---- MODULE Spec2Model ----
(***************************************************************************)
(* State-machine model of the userspace client of the quantum task driver: *)
(* the canonical library (qos_submit, qos_status, qos_cancel, qos_result,  *)
(* qos_resource) and qrun's wait_with_progress.  One client thread runs    *)
(* one call at a time; the driver and the C runtime (open, write, read,    *)
(* ioctl, calloc) are the environment and answer nondeterministically.     *)
(***************************************************************************)
EXTENDS Integers, Sequences, FiniteSets, TLC

(* ------------------------------------------------------------------ *)
(* Program constants                                                    *)
(* ------------------------------------------------------------------ *)
QOS_QIR_SIZE        == 4096
QOS_MAX_OUTCOMES    == 32
QOS_KEY_LEN         == 192
QOS_MAX_BACKENDS    == 8

\* char error_info[128];  char name[32];
ErrorInfoSize       == 128
NameSize            == 32

QOS_STATE_UNKNOWN   == 0
QOS_STATE_RECEIVED  == 1
QOS_STATE_QUEUED    == 2
QOS_STATE_RUNNING   == 3
QOS_STATE_SUCCESS   == 4
QOS_STATE_FAILED    == 5
QOS_STATE_CANCELLED == 6
QOS_STATE_MERGING   == 7

QOS_OK              == 0
QOS_ERR_OPEN_DEV    == -1
QOS_ERR_SUBMIT      == -2
QOS_ERR_IOCTL       == -3
QOS_ERR_TIMEOUT     == -4
QOS_ERR_NOT_FOUND   == -5
QOS_ERR_ARGS        == -6
QOS_ERR_NOMEM       == -7
QOS_ERR_KERN        == -8

ENOENT              == 2
EBUSY               == 16

\* Largest value of the C type int (32 bits, two's complement).
MaxInt32            == 2147483647
MinInt32            == -MaxInt32 - 1

(* ------------------------------------------------------------------ *)
(* Bounds of the model                                                  *)
(* ------------------------------------------------------------------ *)
\* Largest number of sleeps one poll session is followed for.  A session
\* with the 60000 ms default deadline sleeps 123 times before it times out.
MaxPolls            == 124

(* ------------------------------------------------------------------ *)
(* 32-bit int arithmetic                                                *)
(* ------------------------------------------------------------------ *)
\* a + b in a 32-bit int.  Signed overflow is undefined in C; the builds of
\* this code (no -ftrapv) wrap modulo 2^32, which is what is computed here.
Add32(a, b) ==
    IF a >= 0 /\ b >= 0 /\ a > MaxInt32 - b
        THEN (a + MinInt32) + (b + MinInt32)
    ELSE IF a < 0 /\ b < 0 /\ a < MinInt32 - b
        THEN (a - MinInt32) + (b - MinInt32)
    ELSE a + b

\* a * n in a 32-bit int, for n >= 0, by doubling.
RECURSIVE Mul32(_, _)
Mul32(a, n) ==
    IF n = 0 THEN 0
    ELSE LET h == Mul32(a, n \div 2)
             d == Add32(h, h)
         IN  IF n % 2 = 1 THEN Add32(d, a) ELSE d

(* ------------------------------------------------------------------ *)
(* Pure pieces of the poll loop                                         *)
(* ------------------------------------------------------------------ *)
\* What a build makes of the test timeout_ms > 0 in a call with timeout_s = t.
\* While timeout_s * 1000 fits an int the test is true in every build; when it
\* does not, the behaviour is undefined: the test is kept on the wrapped
\* product, or it is left out (as -O2, the flag of the Makefile, does).
GuardOutcomes(t) ==
    IF t > 0 /\ t > MaxInt32 \div 1000 THEN BOOLEAN ELSE {TRUE}

\* int timeout_ms = timeout_s > 0 ? timeout_s * 1000 : 30000;   (qos_result)
qos_result_timeout_ms(t) == IF t > 0 THEN Mul32(t, 1000) ELSE 30000

\* int timeout_ms = timeout_s > 0 ? timeout_s * 1000 : 60000;   (wait_with_progress)
wait_timeout_ms(t) == IF t > 0 THEN Mul32(t, 1000) ELSE 60000

\* Faulty variant: the ceiling is tested on the current interval.
backoff_next_ms_late_cap(cur) ==
    LET next == Add32(cur, cur)
    IN  IF cur > 500 THEN 500 ELSE next

\* Faulty variant: past the ceiling the interval starts again at 50 ms.
backoff_next_ms_restart(cur) ==
    LET next == Add32(cur, cur)
    IN  IF next > 500 THEN 50 ELSE next

backoff_next_ms(cur) ==
    LET next == Add32(cur, cur)
    IN  IF next > 500 THEN 500 ELSE next

\* Faulty variant: "no such entry" is reported as NotFound, as qos_cancel does.
qos_status_value_enoent_error(r, e, st) ==
    IF r < 0
        THEN IF e = ENOENT THEN QOS_ERR_NOT_FOUND ELSE QOS_ERR_IOCTL
        ELSE st

\* What qos_status returns once the channel is closed.
qos_status_value(r, e, st) ==
    IF r < 0
        THEN IF e = ENOENT THEN QOS_STATE_UNKNOWN ELSE QOS_ERR_IOCTL
        ELSE st

\* The state wait_with_progress derives from its own status ioctl.
wait_state_value(r, e, st) ==
    IF r < 0
        THEN IF e = ENOENT THEN QOS_STATE_UNKNOWN ELSE -e
        ELSE st

\* if (state == QOS_STATE_UNKNOWN || state < 0)
IsUnknownObs(st) == st = QOS_STATE_UNKNOWN \/ st < 0

\* Faulty variant: a known status clears the counter.
UnknownCntAfter_reset(st, cnt) == IF IsUnknownObs(st) THEN cnt + 1 ELSE 0

\* unknown_cnt after the checks of one iteration; it is never reset.
UnknownCntAfter(st, cnt) == IF IsUnknownObs(st) THEN cnt + 1 ELSE cnt

\* if (timeout_ms > 0 && elapsed_ms >= timeout_ms)
\* timeout_ms is 30000 (60000) or timeout_s * 1000 with timeout_s > 0, a
\* product whose overflow is undefined: a build may take it to be positive
\* and leave the first test out.  g: the build kept the test.
DeadlineHit(g, tmo, el) == (g => tmo > 0) /\ el >= tmo

\* Faulty variant: a failed task ends the loop as an error of the poller.
PollVerdict_failed_is_error(g, st, cnt, tmo, el) ==
    IF st = QOS_STATE_SUCCESS THEN "fetch"
    ELSE IF st = QOS_STATE_FAILED THEN "not_found"
    ELSE IF st = QOS_STATE_CANCELLED THEN "not_found"
    ELSE IF IsUnknownObs(st) /\ UnknownCntAfter(st, cnt) >= 3 THEN "not_found"
    ELSE IF DeadlineHit(g, tmo, el) THEN "timeout"
    ELSE "sleep"

\* Faulty variant: the deadline is tested before the cancelled state.
PollVerdict_deadline_first(g, st, cnt, tmo, el) ==
    IF st = QOS_STATE_SUCCESS THEN "fetch"
    ELSE IF st = QOS_STATE_FAILED THEN "fetch"
    ELSE IF DeadlineHit(g, tmo, el) THEN "timeout"
    ELSE IF st = QOS_STATE_CANCELLED THEN "not_found"
    ELSE IF IsUnknownObs(st) /\ UnknownCntAfter(st, cnt) >= 3 THEN "not_found"
    ELSE "sleep"

\* Faulty variant: the deadline is tested before anything else.
PollVerdict_deadline_before_terminal(g, st, cnt, tmo, el) ==
    IF DeadlineHit(g, tmo, el) THEN "timeout"
    ELSE IF st = QOS_STATE_SUCCESS THEN "fetch"
    ELSE IF st = QOS_STATE_FAILED THEN "fetch"
    ELSE IF st = QOS_STATE_CANCELLED THEN "not_found"
    ELSE IF IsUnknownObs(st) /\ UnknownCntAfter(st, cnt) >= 3 THEN "not_found"
    ELSE "sleep"

\* The way one iteration of the loop ends, the checks in the order of the code.
PollVerdict(g, st, cnt, tmo, el) ==
    IF st = QOS_STATE_SUCCESS THEN "fetch"
    ELSE IF st = QOS_STATE_FAILED THEN "fetch"
    ELSE IF st = QOS_STATE_CANCELLED THEN "not_found"
    ELSE IF IsUnknownObs(st) /\ UnknownCntAfter(st, cnt) >= 3 THEN "not_found"
    ELSE IF DeadlineHit(g, tmo, el) THEN "timeout"
    ELSE "sleep"

\* Faulty variant: without progress output the deadline is not enforced.
WaitVerdict_quiet_never_times_out(g, prog, st, cnt, tmo, el) ==
    LET v == PollVerdict(g, st, cnt, tmo, el)
    IN  IF prog = 0 /\ v = "timeout" THEN "sleep" ELSE v

\* The way one iteration of wait_with_progress ends: show_progress guards
\* only the fputs and putchar calls between the checks.
WaitVerdict(g, prog, st, cnt, tmo, el) ==
    PollVerdict(g, st, cnt, tmo, el)

\* if (show_progress) { snprintf(prog_buf, ...); fputs(prog_buf, stdout); }
\* the lines one iteration writes.
ProgressLines(prog) == IF prog # 0 THEN 1 ELSE 0

\* The value qos_result returns once the result request has succeeded.
qos_result_retcode(st) == QOS_OK

(* ------------------------------------------------------------------ *)
(* Submission header                                                    *)
(* ------------------------------------------------------------------ *)
Digit(d) == <<"0", "1", "2", "3", "4", "5", "6", "7", "8", "9">>[d + 1]

\* The characters printf("%d") writes for n.
RECURSIVE DecStr(_)
DecStr(n) ==
    IF n < 0 THEN "-" \o DecStr(-n)
    ELSE IF n < 10 THEN Digit(n)
    ELSE DecStr(n \div 10) \o Digit(n % 10)

\* qos_config_t default_cfg = {1000, 0, 0, 0, 0};
default_cfg ==
    [shots |-> 1000, priority |-> 0, error_mitigation |-> 0,
     alloc_strategy |-> 0, split_strategy |-> 0]

\* Faulty variant: mitigation is printed before priority.
Header_mitigation_first(cfg) ==
    "shots=" \o DecStr(cfg.shots)
    \o " mitigation=" \o DecStr(cfg.error_mitigation)
    \o " priority=" \o DecStr(cfg.priority)
    \o " alloc_strategy=" \o DecStr(cfg.alloc_strategy)
    \o " split_strategy=" \o DecStr(cfg.split_strategy)
    \o "\n"

\* snprintf(header, sizeof(header), "shots=%d priority=%d mitigation=%d "
\*          "alloc_strategy=%d split_strategy=%d\n", ...): at most 115
\* characters, so the 256-byte buffer never truncates it.
Header(cfg) ==
    "shots=" \o DecStr(cfg.shots)
    \o " priority=" \o DecStr(cfg.priority)
    \o " mitigation=" \o DecStr(cfg.error_mitigation)
    \o " alloc_strategy=" \o DecStr(cfg.alloc_strategy)
    \o " split_strategy=" \o DecStr(cfg.split_strategy)
    \o "\n"

\* header_len = strlen(header);
HeaderLen(cfg) == Len(Header(cfg))

(* ------------------------------------------------------------------ *)
(* Inputs and environment answers                                       *)
(* ------------------------------------------------------------------ *)
QidInputs == {-1, 0, 1}

\* 4294968 * 1000 wraps to 704 and 2147484 * 1000 wraps to a negative int.
TimeoutInputs == {-1, 0, 1, 4294968, 2147484}

\* A pointer argument that is NULL.
NULL == [null |-> TRUE]

\* The config argument: NULL, or a pointer to a qos_config_t.
ConfigInputs ==
    {NULL,
     [null |-> FALSE, shots |-> 20, priority |-> 9, error_mitigation |-> 1,
      alloc_strategy |-> 3, split_strategy |-> 4],
     [null |-> FALSE, shots |-> -1, priority |-> 0, error_mitigation |-> 0,
      alloc_strategy |-> 0, split_strategy |-> 12]}

\* A text of n bytes.
RECURSIVE Fill(_)
Fill(n) ==
    IF n = 0 THEN ""
    ELSE IF n % 2 = 1 THEN Fill(n - 1) \o "q"
    ELSE LET h == Fill(n \div 2) IN h \o h

\* The circuit argument: NULL, or a C string (its bytes before the NUL).  The
\* header is 69 bytes long with the default config, 67 with the second and
\* 68 with the third one.
CircuitInputs ==
    {NULL, [null |-> FALSE, bytes |-> "h q[0];\n"]}
    \cup {[null |-> FALSE, bytes |-> Fill(n)] :
              n \in {0, 4026, 4027, 4028, 4029, 4030}}

\* States a successful status request may report.
DriverStates ==
    {QOS_STATE_UNKNOWN, QOS_STATE_RECEIVED, QOS_STATE_QUEUED, QOS_STATE_RUNNING,
     QOS_STATE_SUCCESS, QOS_STATE_FAILED, QOS_STATE_CANCELLED, QOS_STATE_MERGING}

\* errno of a failed request.
Errnos == {ENOENT, EBUSY, 5}

\* The bytes of a char array before its first NUL: the first len bytes of
\* the text src.  A len equal to the size of the array means that the array
\* holds no NUL.
Text(s, n) == [src |-> s, len |-> n]
EmptyText  == Text(0, 0)

\* A char array of a public record: its text, and whether every byte behind
\* the text is NUL.
ZeroArr          == [text |-> EmptyText, clean |-> TRUE]
GarbageArr(size) == [text |-> Text(99, size), clean |-> FALSE]

\* The first n bytes of t.
Prefix(t, n) == IF t.len <= n THEN t ELSE Text(t.src, n)

\* Faulty variant: the key is copied up to its NUL, without a bound.
KeyCopy_unbounded(dst, src) == [text |-> src, clean |-> TRUE]

\* strncpy(dst, src, QOS_KEY_LEN - 1); dst[QOS_KEY_LEN - 1] = '\0';
\* strncpy stores the bytes of src before its NUL, at most QOS_KEY_LEN - 1 of
\* them, and fills up to QOS_KEY_LEN - 1 bytes with NUL; the last byte of the
\* slot is then set to NUL, so the whole slot is written.
KeyCopy(dst, src) == [text |-> Prefix(src, QOS_KEY_LEN - 1), clean |-> TRUE]

\* strncpy(dst, src, n) into an array of n + 1 bytes: the first n bytes are
\* written (the text of src, then NULs) and the last byte of dst is not.  It
\* is NUL when the old text of dst had n bytes, or fewer in a clean array.
\* When it is not NUL and src has n bytes or more, the text of dst runs on
\* into its old bytes.
Strncpy(dst, src, n) ==
    IF dst.text.len = n \/ (dst.clean /\ dst.text.len < n)
        THEN [text |-> Prefix(src, n), clean |-> TRUE]
    ELSE IF src.len < n
        THEN [text |-> src, clean |-> FALSE]
    ELSE [text |-> Text(99, IF dst.text.len > n THEN dst.text.len ELSE n + 1),
          clean |-> FALSE]

\* The text printf("%s") reads from a source array of size bytes: up to its
\* NUL; when the array holds none, the read runs on into the e bytes that lie
\* behind the array before the next NUL.
ReadString(src, size, e) ==
    IF src.len < size THEN src ELSE Text(src.src, size + e)

\* snprintf(dst, size, "%s", src): at most size - 1 bytes and a NUL are
\* stored; the bytes of dst behind that NUL are not written.  They are all
\* NUL when there are none (the text fills size - 1 bytes), or when dst was
\* clean and its old text ended no later than the NUL stored.
Snprintf(dst, size, src) ==
    LET t == Prefix(src, size - 1)
    IN  [text |-> t,
         clean |-> \/ t.len + 1 >= size
                   \/ dst.clean /\ dst.text.len <= t.len + 1]

\* struct kern_result as the driver fills it (qid is set by the client).
\* A record of 2 outcomes with the longest error text that fits, one that
\* reports 40 outcomes with no NUL in any key, and one of a failed task with
\* a negative count and no NUL in error_info.
DriverResults ==
    {[qid |-> 0, shots |-> 1000, num_outcomes |-> 2,
      keys |-> [i \in 1..QOS_MAX_OUTCOMES |->
                   IF i = 1 THEN Text(1, 2) ELSE IF i = 2 THEN Text(2, 191)
                   ELSE EmptyText],
      counts |-> [i \in 1..QOS_MAX_OUTCOMES |->
                   IF i = 1 THEN 600 ELSE IF i = 2 THEN 400 ELSE 0],
      error_code |-> 0, error_info |-> Text(50, 127)],
     [qid |-> 0, shots |-> 1000, num_outcomes |-> 40,
      keys |-> [i \in 1..QOS_MAX_OUTCOMES |-> Text(i, QOS_KEY_LEN)],
      counts |-> [i \in 1..QOS_MAX_OUTCOMES |-> i],
      error_code |-> 0, error_info |-> EmptyText],
     [qid |-> 0, shots |-> 1000, num_outcomes |-> -1,
      keys |-> [i \in 1..QOS_MAX_OUTCOMES |-> Text(i, 3)],
      counts |-> [i \in 1..QOS_MAX_OUTCOMES |-> 5],
      error_code |-> 7, error_info |-> Text(51, ErrorInfoSize)]}

\* What the caller's result record holds before the call.
OutBefore ==
    [qid |-> -9, shots |-> -9, num_outcomes |-> -9,
     keys |-> [i \in 1..QOS_MAX_OUTCOMES |-> GarbageArr(QOS_KEY_LEN)],
     counts |-> [i \in 1..QOS_MAX_OUTCOMES |-> -9],
     error_code |-> -9, error_info |-> GarbageArr(ErrorInfoSize),
     fidelity_score |-> -9, num_sub_circuits |-> -9]

\* A qos_result_t whose bytes are all zero.
AllZeroResult ==
    [qid |-> 0, shots |-> 0, num_outcomes |-> 0,
     keys |-> [i \in 1..QOS_MAX_OUTCOMES |-> ZeroArr],
     counts |-> [i \in 1..QOS_MAX_OUTCOMES |-> 0],
     error_code |-> 0, error_info |-> ZeroArr,
     fidelity_score |-> 0, num_sub_circuits |-> 0]

\* Faulty variant: the record is cleared up to error_info only, the size of
\* the kernel record.
ZeroResult_kernel_size(o) ==
    [AllZeroResult EXCEPT !.fidelity_score = o.fidelity_score,
                          !.num_sub_circuits = o.num_sub_circuits]

\* Faulty variant: the record is not cleared before it is populated.
ZeroResult_skipped(o) == o

\* memset(out, 0, sizeof(*out));
ZeroResult(o) == AllZeroResult

\* struct kern_backend as the driver fills entry i: a short name, the longest
\* name that fits, and names with no NUL.
KernBackend(i) ==
    [id |-> i,
     name |-> IF i = 1 THEN Text(1, 5) ELSE IF i = 2 THEN Text(2, 31)
              ELSE Text(i, NameSize),
     total_qubits |-> 64, state |-> i % 4, current_qid |-> i - 2,
     last_calibration_time |-> 1000 + i, fidelity_score |-> 90 + i,
     num_qubits_available |-> 60, connectivity_type |-> i % 3]

\* struct kern_backend_pool as the driver fills it.
DriverPools ==
    {[backends |-> [i \in 1..QOS_MAX_BACKENDS |-> KernBackend(i)],
      num_backends |-> n] : n \in {-2, 0, 3, 9}}

\* What a qos_backend_t of the caller holds before the call.
GarbageBackend ==
    [id |-> -9, name |-> GarbageArr(NameSize), total_qubits |-> -9,
     state |-> -9, current_qid |-> -9, fidelity_score |-> -9,
     num_qubits_available |-> -9, connectivity_type |-> -9]

\* What the caller's pool record holds before the call.
PoolBefore ==
    [num_backends |-> -9,
     backends |-> [i \in 1..QOS_MAX_BACKENDS |-> GarbageBackend]]

(* ------------------------------------------------------------------ *)
(* Calls of qos_result made at the same time by several threads         *)
(* ------------------------------------------------------------------ *)
Threads      == {1, 2}

\* Largest number of sleeps one of these calls is followed for.
ConcPolls    == 4

\* timeout_s of these calls: the default deadline (30000 ms), and a value
\* whose product with 1000 wraps to 704 ms, reached after four sleeps.
ConcTimeouts == {0, 4294968}

\* The states the driver reports to these calls.
ConcStates   ==
    {QOS_STATE_UNKNOWN, QOS_STATE_RUNNING, QOS_STATE_SUCCESS, QOS_STATE_CANCELLED}

\* Faulty variant: unknown_cnt is one static variable of the library.
CounterCell_static(t) == 1

\* int unknown_cnt = 0;  an automatic variable: every call has its own.
CounterCell(t) == t

\* The locals of a thread that is not inside a call.
IdleCall ==
    [pc |-> "idle", qid |-> 0, timeout_ms |-> 0, elapsed_ms |-> 0,
     interval_ms |-> 50, state |-> 0, fd |-> -1, ioret |-> 0, ret |-> 0,
     nSleep |-> 0, verdict |-> "none"]

\* What the same call gives when it runs alone: the reference of a thread.
IdleRef == [unknown_cnt |-> 0, verdict |-> "none"]

ConcInit ==
    [loc |-> [t \in Threads |-> IdleCall],
     cnt |-> [c \in Threads |-> 0],
     fds |-> {},
     ref |-> [t \in Threads |-> IdleRef]]

\* open() returns the lowest descriptor that is not in use (0..2 are taken).
LowestFree(fds) ==
    CHOOSE n \in 3..(3 + Cardinality(fds)) :
        n \notin fds /\ \A m \in 3..(n - 1) : m \in fds

(* ------------------------------------------------------------------ *)
(* The reduced profile of the library: constants, inputs, records       *)
(* ------------------------------------------------------------------ *)
QUANTUM_MAX_BACKENDS  == 8
QUANTUM_MAX_OUTCOMES  == 32
QUANTUM_KEY_LEN       == 192
\* char keys[QUANTUM_MAX_OUTCOMES][96] of its struct kern_result
KernKeyLen            == 96

QTASK_STATE_UNKNOWN   == 0
QTASK_STATE_RUNNING   == 3
QTASK_STATE_SUCCESS   == 4
QTASK_STATE_FAILED    == 5
QTASK_STATE_CANCELLED == 6

QERR_OK               == 0
QERR_OPEN_DEV         == -1
QERR_STATUS           == -3
QERR_RESULT           == -4
QERR_RESOURCE         == -5
QERR_NOT_FOUND        == -6
QERR_TIMEOUT          == -7

\* Largest number of sleep(1) one reduced-profile call is followed for.
RedPolls      == 4

\* timeout_s of the reduced-profile calls: no deadline, and two seconds.
RedTimeouts   == {0, 2}

\* The task states the driver returns from the status ioctl of this profile.
RedStates     ==
    {QTASK_STATE_UNKNOWN, QTASK_STATE_RUNNING, QTASK_STATE_SUCCESS,
     QTASK_STATE_FAILED, QTASK_STATE_CANCELLED}

\* struct kern_result of this profile as the driver fills it: 2 outcomes, and
\* 40 outcomes with no NUL in any key.
RedDriverResults ==
    {[qid |-> 0, shots |-> 1000, num_outcomes |-> 2,
      keys |-> [i \in 1..QUANTUM_MAX_OUTCOMES |->
                   IF i <= 2 THEN Text(i, 2) ELSE EmptyText],
      counts |-> [i \in 1..QUANTUM_MAX_OUTCOMES |->
                   IF i = 1 THEN 600 ELSE IF i = 2 THEN 400 ELSE 0],
      error_code |-> 0, error_info |-> EmptyText],
     [qid |-> 0, shots |-> 1000, num_outcomes |-> 40,
      keys |-> [i \in 1..QUANTUM_MAX_OUTCOMES |-> Text(i, KernKeyLen)],
      counts |-> [i \in 1..QUANTUM_MAX_OUTCOMES |-> i],
      error_code |-> 7, error_info |-> Text(50, 20)]}

\* calloc(1, sizeof(*kr)) of this profile.
RedNoReply ==
    [qid |-> 0, shots |-> 0, num_outcomes |-> 0,
     keys |-> [i \in 1..QUANTUM_MAX_OUTCOMES |-> EmptyText],
     counts |-> [i \in 1..QUANTUM_MAX_OUTCOMES |-> 0],
     error_code |-> 0, error_info |-> EmptyText]

\* The caller's qos_result_t of this profile before the call.
RedOutBefore ==
    [qid |-> -9, shots |-> -9, num_outcomes |-> -9,
     keys |-> [i \in 1..QUANTUM_MAX_OUTCOMES |-> GarbageArr(QUANTUM_KEY_LEN)],
     counts |-> [i \in 1..QUANTUM_MAX_OUTCOMES |-> -9],
     error_code |-> -9, error_info |-> GarbageArr(ErrorInfoSize)]

\* struct kern_backend of this profile as the driver fills entry i.
RedKernBackend(i) ==
    [id |-> i,
     name |-> IF i = 1 THEN Text(1, 5) ELSE Text(i, NameSize),
     total_qubits |-> 64, state |-> i % 4, current_qid |-> i - 2,
     last_calibration_time |-> 1000 + i]

\* struct kern_backend_pool of this profile as the driver fills it.
RedDriverPools ==
    {[backends |-> [i \in 1..QUANTUM_MAX_BACKENDS |-> RedKernBackend(i)],
      num_backends |-> n] : n \in {-2, 0, 3, 9}}

\* calloc(1, sizeof(*kp)).
RedNoPool ==
    [backends |-> [i \in 1..QUANTUM_MAX_BACKENDS |->
                     [id |-> 0, name |-> EmptyText, total_qubits |-> 0,
                      state |-> 0, current_qid |-> 0,
                      last_calibration_time |-> 0]],
     num_backends |-> 0]

\* pool = calloc(1, sizeof(*pool)) of qresource: a qos_backend_pool_t of zeros.
RedZeroPool ==
    [backends |-> [i \in 1..QUANTUM_MAX_BACKENDS |->
                     [id |-> 0, name |-> ZeroArr, total_qubits |-> 0,
                      state |-> 0, current_qid |-> 0]],
     num_backends |-> 0]

\* No reduced-profile call is running.
RedInit ==
    [op |-> "none", pc |-> "idle", qid |-> 0, timeout_s |-> 0,
     out_null |-> FALSE, ret |-> 0, elapsed |-> 0, unknown_count |-> 0,
     st |-> 0, seen |-> <<>>, verdict |-> "none", ioret |-> 0, errno |-> 0,
     nResult |-> 0, kr |-> RedNoReply, out |-> RedOutBefore,
     kp |-> RedNoPool, pool |-> RedZeroPool, printed |-> 0, err |-> 0]

(* ------------------------------------------------------------------ *)
(* Layout of the backend records                                        *)
(* ------------------------------------------------------------------ *)
\* A member of a struct: its name, its size and its alignment in bytes.
Member(n, sz, al) == [name |-> n, size |-> sz, align |-> al]
IntMember(n)      == Member(n, 4, 4)

\* The record of the driver as the comment above struct kern_backend gives
\* it: the __u64 follows int state and int current_qid.
DriverBackendFields ==
    <<IntMember("id"), Member("name", NameSize, 1), IntMember("total_qubits"),
      IntMember("state"), IntMember("current_qid"),
      Member("last_calibration_time", 8, 8), IntMember("fidelity_score"),
      IntMember("num_qubits_available"), IntMember("connectivity_type")>>

\* struct kern_backend of the client, with its member _pad.
MirrorBackendFields ==
    <<IntMember("id"), Member("name", NameSize, 1), IntMember("total_qubits"),
      IntMember("state"), IntMember("current_qid"), IntMember("_pad"),
      Member("last_calibration_time", 8, 8), IntMember("fidelity_score"),
      IntMember("num_qubits_available"), IntMember("connectivity_type")>>

\* The next multiple of a at or after o.
AlignUp(o, a) == ((o + a - 1) \div a) * a

\* The offset the compiler gives member k of the struct fs.
RECURSIVE FieldOffset(_, _)
FieldOffset(fs, k) ==
    IF k = 1 THEN 0
    ELSE AlignUp(FieldOffset(fs, k - 1) + fs[k - 1].size, fs[k].align)

\* The alignment and the size (sizeof) of the struct fs.
StructAlign(fs) ==
    CHOOSE a \in {fs[k].align : k \in DOMAIN fs} :
        \A k \in DOMAIN fs : fs[k].align <= a
StructSize(fs) ==
    AlignUp(FieldOffset(fs, Len(fs)) + fs[Len(fs)].size, StructAlign(fs))

\* sizeof of the pool: backends[QOS_MAX_BACKENDS], then int num_backends.
PoolSize(fs) ==
    AlignUp(QOS_MAX_BACKENDS * StructSize(fs) + 4, StructAlign(fs))

\* What byte b of a pool whose entries are laid out as fs belongs to: the
\* entry, the member and the byte of the member; padding, named or inserted
\* by the compiler, is "pad".
PoolFieldAt(fs, b) ==
    LET sz == StructSize(fs)
        e  == b \div sz
        r  == b % sz
        ks == {k \in DOMAIN fs :
                 FieldOffset(fs, k) <= r /\ r < FieldOffset(fs, k) + fs[k].size}
    IN  IF e >= QOS_MAX_BACKENDS
            THEN IF b < QOS_MAX_BACKENDS * sz + 4
                    THEN <<"num_backends", b - QOS_MAX_BACKENDS * sz>>
                    ELSE <<"pad">>
        ELSE IF ks = {} THEN <<e, "pad">>
        ELSE LET k == CHOOSE x \in ks : TRUE
             IN  IF fs[k].name = "_pad" THEN <<e, "pad">>
                 ELSE <<e, fs[k].name, r - FieldOffset(fs, k)>>

\* The decoder at the first byte of the pool the driver wrote.
LayInit ==
    [off |-> 0, driver |-> PoolFieldAt(DriverBackendFields, 0),
     mirror |-> PoolFieldAt(MirrorBackendFields, 0)]

(* ------------------------------------------------------------------ *)
(* State                                                                *)
(* ------------------------------------------------------------------ *)
VARIABLES
    op,             \* the public operation being run ("none" before the first)
    pc,             \* position in it; "done" once it has returned
    qid,            \* argument qid
    timeout_s,      \* argument timeout_s
    out_null,       \* the output pointer argument is NULL
    show_progress,  \* argument show_progress of wait_with_progress
    circuit,        \* argument circuit of qos_submit, or NULL
    config,         \* argument config of qos_submit, or NULL
    state,          \* local: last status seen by the poll loop
    elapsed_ms,     \* local
    interval_ms,    \* local
    unknown_cnt,    \* local
    timeout_ms,     \* local
    total_len,      \* local of qos_submit
    ioret,          \* return value of the last write/read/ioctl
    errno,          \* errno of the last failed request
    req_state,      \* req.state as the driver left it
    rd_qid,         \* qos_submit's local qid, filled by read()
    kr,             \* the kernel result record filled by the result ioctl
    kpool,          \* the kernel pool record filled by the resource ioctl
    fd_open,        \* number of channels open now
    openFails,      \* history: failed opens of this call
    ret,            \* return value of the finished call
    out,            \* the caller's result record
    pool,           \* the caller's backend pool record
    opens,          \* history: successful opens of this call
    closes,         \* history: closes of this call
    nStatus,        \* history: status requests of this call
    nSleep,         \* history: sleeps of this call
    nResult,        \* history: result requests of this call
    nUnkObs,        \* history: statuses seen by the loop that were unknown or negative
    gapSeen,        \* history: a known status was seen after an unknown one
    lastSleep,      \* history: interval of the last sleep
    slept,          \* history: sum of the intervals asked of sleep_ms
    nWrite, nRead, nCancel, nResource, \* history: requests of this call
    wr_req,         \* history: length asked of write()
    wr_ret,         \* history: what write() returned
    wr_buf,         \* history: the bytes handed to write()
    prior,          \* history: the call repeats a qos_result that returned
                    \* OK; the record and the buffer of that first call
    conc,           \* the threads of a process that call qos_result at the
                    \* same time: their locals, the descriptors in use
    red,            \* the call of the reduced-profile library being run:
                    \* its arguments, locals, records and return value
    lay,            \* a byte of the pool record the driver wrote: what the
                    \* driver put there and what the client reads there
    pair,           \* qos_result and wait_with_progress called with the same
                    \* arguments, each given the same answers by the driver
    guard,          \* the build kept the test timeout_ms > 0 of the poll loop
    report,         \* the line qcancel prints before it exits
    cancel_errno,   \* history: errno of the cancel request (0: it succeeded)
    nProgress       \* the progress lines wait_with_progress wrote to stdout

args  == <<op, qid, timeout_s, out_null, show_progress, circuit, config, prior,
           conc, red, lay, pair, guard>>
locs  == <<state, elapsed_ms, interval_ms, unknown_cnt, timeout_ms, total_len>>
reply == <<ioret, errno, req_state, rd_qid, kr, kpool>>
bufs  == <<out, pool>>
chan  == <<fd_open, opens, closes, openFails>>
obs   == <<nUnkObs, gapSeen>>
tool  == <<report, cancel_errno, nProgress>>
hist  == <<nStatus, nSleep, nResult, obs, lastSleep, slept,
           nWrite, nRead, nCancel, nResource, wr_req, wr_ret, wr_buf, tool>>
wr    == <<wr_req, wr_ret, wr_buf>>
vars  == <<args, locs, reply, bufs, chan, hist, pc, ret>>

\* calloc(1, sizeof(*kr)) and calloc(1, sizeof(*pool)): all bytes zero.
NoReply ==
    [qid |-> 0, shots |-> 0, num_outcomes |-> 0,
     keys |-> [i \in 1..QOS_MAX_OUTCOMES |-> EmptyText],
     counts |-> [i \in 1..QOS_MAX_OUTCOMES |-> 0],
     error_code |-> 0, error_info |-> EmptyText]
NoPool ==
    [backends |-> [i \in 1..QOS_MAX_BACKENDS |->
                     [id |-> 0, name |-> EmptyText, total_qubits |-> 0,
                      state |-> 0, current_qid |-> 0,
                      last_calibration_time |-> 0, fidelity_score |-> 0,
                      num_qubits_available |-> 0, connectivity_type |-> 0]],
     num_backends |-> 0]

\* The call does not repeat an earlier one.
NoPrior == [set |-> FALSE]

(* ------------------------------------------------------------------ *)
(* qos_result and wait_with_progress run against the same driver        *)
(* ------------------------------------------------------------------ *)
\* Largest number of sleeps one of the two loops is followed for: with five
\* sleeps (50, 100, 200, 400 and 500 ms) the interval reaches its ceiling and
\* the elapsed time passes the deadline of timeout_s = 1.
PairPolls == 5

\* How many status requests one of the two processes is followed ahead of the
\* other.  The processes share nothing but the driver, so every run of one
\* process is met within every lag.
PairLag == 2

\* How many times open() fails during one pair of calls.
PairOpenFails == 1

\* 1 s, whose deadline of 1000 ms is passed by the fifth sleep, and the
\* smallest timeout_s whose product with 1000 does not fit an int.
PairTimeouts == {1, 2147484}

\* Before the two calls.  Each of lib (the process in qos_result) and run
\* (the process in wait_with_progress) holds the locals of its function, what
\* its build made of the test timeout_ms > 0, the channel it has open, the
\* answer to its last request, the requests and sleeps it has made, and the
\* record its caller handed in.  answers holds, in order, the answers of the
\* driver to the status requests one process has made and the other has not
\* made yet; alloc and result are the outcome of calloc and the answer to
\* the result request of the process that asked first.  The other process is
\* given the same.  failed: the driver has failed a status request with an
\* errno other than ENOENT.  openFails: the opens that have failed.
PairInit ==
    LET idle == [pc |-> "idle", guard |-> TRUE, state |-> 0, elapsed_ms |-> 0,
                 interval_ms |-> 50, unknown_cnt |-> 0, timeout_ms |-> 0,
                 fd |-> 0, ioret |-> 0, errno |-> 0, req_state |-> 0,
                 kr |-> NoReply, nStatus |-> 0, nResult |-> 0,
                 sleeps |-> <<>>, ret |-> 0, out |-> OutBefore]
    IN  [qid |-> 0, timeout_s |-> 0, show_progress |-> 0,
         answers |-> <<>>, alloc |-> <<>>, result |-> <<>>, failed |-> FALSE,
         openFails |-> 0, lib |-> idle, run |-> idle]

Init ==
    /\ op = "none" /\ pc = "idle" /\ prior = NoPrior /\ conc = ConcInit
    /\ red = RedInit /\ lay = LayInit /\ pair = PairInit /\ guard = TRUE
    /\ qid = 0 /\ timeout_s = 0 /\ out_null = FALSE /\ show_progress = 0
    /\ circuit = NULL /\ config = NULL
    /\ state = 0 /\ elapsed_ms = 0 /\ interval_ms = 50 /\ unknown_cnt = 0
    /\ timeout_ms = 0 /\ total_len = 0
    /\ ioret = 0 /\ errno = 0 /\ req_state = 0 /\ rd_qid = -1
    /\ kr = NoReply /\ kpool = NoPool
    /\ fd_open = 0 /\ opens = 0 /\ closes = 0 /\ openFails = 0
    /\ ret = 0
    /\ out = OutBefore /\ pool = PoolBefore
    /\ nStatus = 0 /\ nSleep = 0 /\ nResult = 0 /\ nUnkObs = 0 /\ lastSleep = 0
    /\ gapSeen = FALSE /\ slept = 0
    /\ nWrite = 0 /\ nRead = 0 /\ nCancel = 0 /\ nResource = 0
    /\ wr_req = 0 /\ wr_ret = 0 /\ wr_buf = ""
    /\ report = "" /\ cancel_errno = 0 /\ nProgress = 0

(* ------------------------------------------------------------------ *)
(* Calls                                                                *)
(* ------------------------------------------------------------------ *)
\* A call starts when the previous one has returned.  Locals take the values
\* of their declarations, the caller hands in fresh output records, and the
\* history of the call starts empty.
Enter(o, q, t, onull, prog, circ, cfg, tmo, total) ==
    /\ pc = "idle"
    /\ prior' = NoPrior /\ conc' = conc /\ red' = red /\ lay' = lay
    /\ pair' = pair /\ guard' \in GuardOutcomes(t)
    /\ op' = o /\ qid' = q /\ timeout_s' = t /\ out_null' = onull
    /\ show_progress' = prog /\ circuit' = circ /\ config' = cfg
    /\ state' = 0 /\ elapsed_ms' = 0 /\ interval_ms' = 50 /\ unknown_cnt' = 0
    /\ timeout_ms' = tmo /\ total_len' = total
    /\ ioret' = 0 /\ errno' = 0 /\ req_state' = 0 /\ rd_qid' = -1
    /\ kr' = NoReply /\ kpool' = NoPool
    /\ fd_open' = fd_open /\ opens' = 0 /\ closes' = 0 /\ openFails' = 0
    /\ out' = OutBefore /\ pool' = PoolBefore
    /\ nStatus' = 0 /\ nSleep' = 0 /\ nResult' = 0 /\ nUnkObs' = 0
    /\ lastSleep' = 0 /\ gapSeen' = FALSE /\ slept' = 0
    /\ nWrite' = 0 /\ nRead' = 0 /\ nCancel' = 0 /\ nResource' = 0
    /\ wr_req' = 0 /\ wr_ret' = 0 /\ wr_buf' = ""
    /\ report' = "" /\ cancel_errno' = 0 /\ nProgress' = 0

\* return v;
Return(v) == pc' = "done" /\ ret' = v

\* The caller has taken the return value and the records; nothing of the call
\* is kept by the client, and the next call may start.
caller_resumes ==
    /\ pc = "done"
    /\ pc' = "idle" /\ ret' = 0 /\ prior' = NoPrior /\ conc' = conc
    /\ red' = red /\ lay' = lay /\ pair' = pair /\ guard' = TRUE
    /\ op' = "none" /\ qid' = 0 /\ timeout_s' = 0 /\ out_null' = FALSE
    /\ show_progress' = 0 /\ circuit' = NULL /\ config' = NULL
    /\ state' = 0 /\ elapsed_ms' = 0 /\ interval_ms' = 50 /\ unknown_cnt' = 0
    /\ timeout_ms' = 0 /\ total_len' = 0
    /\ ioret' = 0 /\ errno' = 0 /\ req_state' = 0 /\ rd_qid' = -1
    /\ kr' = NoReply /\ kpool' = NoPool
    /\ fd_open' = fd_open /\ opens' = 0 /\ closes' = 0 /\ openFails' = 0
    /\ out' = OutBefore /\ pool' = PoolBefore
    /\ nStatus' = 0 /\ nSleep' = 0 /\ nResult' = 0 /\ nUnkObs' = 0
    /\ lastSleep' = 0 /\ gapSeen' = FALSE /\ slept' = 0
    /\ nWrite' = 0 /\ nRead' = 0 /\ nCancel' = 0 /\ nResource' = 0
    /\ wr_req' = 0 /\ wr_ret' = 0 /\ wr_buf' = ""
    /\ report' = "" /\ cancel_errno' = 0 /\ nProgress' = 0

\* open(QUANTUM_DEV_PATH, O_RDWR) succeeded.
OpenOk ==
    /\ fd_open' = fd_open + 1 /\ opens' = opens + 1
    /\ UNCHANGED <<closes, openFails>>

\* open(QUANTUM_DEV_PATH, O_RDWR) failed.
OpenFail ==
    /\ openFails' = openFails + 1
    /\ UNCHANGED <<fd_open, opens, closes>>

\* Faulty variant: the handle is cached instead of closed.
Close_cached == UNCHANGED <<fd_open, opens, closes, openFails>>

\* close(fd);
Close ==
    /\ fd_open' = fd_open - 1 /\ closes' = closes + 1
    /\ UNCHANGED <<opens, openFails>>

\* The loop has seen status v.
Observe(v) ==
    /\ nUnkObs' = IF IsUnknownObs(v) THEN nUnkObs + 1 ELSE nUnkObs
    /\ gapSeen' = (gapSeen \/ (~IsUnknownObs(v) /\ nUnkObs >= 1))

(* ------------------------------------------------------------------ *)
(* qos_status, alone and as called by the loop of qos_result            *)
(* ------------------------------------------------------------------ *)
qos_status_call ==
    /\ \E q \in QidInputs :
          Enter("status", q, 0, FALSE, 0, NULL, NULL, 0, 0)
    /\ IF qid' <= 0
          THEN Return(QOS_ERR_ARGS)
          ELSE pc' = "st_open" /\ ret' = 0

\* qcancel after qos_cancel returned QOS_ERR_IOCTL: the line chosen from the
\* value of the status query.
qcancel_refused_report(st) ==
    IF st = QOS_STATE_RUNNING \/ st = QOS_STATE_MERGING
        THEN "is RUNNING, cannot cancel"
        ELSE "cancel failed (state)"

\* Hand the value of qos_status to its caller: the loop of qos_result, qcancel,
\* or the caller of the library.
StatusReturns(v) ==
    IF op = "result"
        THEN /\ state' = v
             /\ Observe(v)
             /\ pc' = "eval"
             /\ UNCHANGED <<ret, report>>
        ELSE IF op = "qcancel"
                THEN /\ report' = qcancel_refused_report(v)
                     /\ Return(1)
                     /\ UNCHANGED <<state, obs>>
                ELSE /\ Return(v)
                     /\ UNCHANGED <<state, obs, report>>

qos_status_open ==
    /\ pc = "st_open"
    /\ \/ /\ OpenOk
          /\ pc' = "st_ioctl"
          /\ UNCHANGED <<state, obs, ret, report>>
       \/ /\ StatusReturns(QOS_ERR_OPEN_DEV)
          /\ OpenFail
    /\ UNCHANGED <<args, reply, bufs>>
    /\ UNCHANGED <<elapsed_ms, interval_ms, unknown_cnt, timeout_ms, total_len>>
    /\ UNCHANGED <<nStatus, nSleep, nResult, lastSleep, slept,
                   nWrite, nRead, nCancel, nResource, wr, cancel_errno, nProgress>>

\* The answers of the driver to a status request.  A task that was seen in
\* the state success stays in it.
StatusAnswer ==
    IF prior.set
        THEN ioret' = 0 /\ errno' = 0 /\ req_state' = QOS_STATE_SUCCESS
        ELSE \/ /\ ioret' = 0 /\ errno' = 0
                /\ req_state' \in DriverStates
             \/ /\ ioret' = -1 /\ errno' \in Errnos /\ req_state' = 0

qos_status_ioctl ==
    /\ pc = "st_ioctl"
    /\ StatusAnswer
    /\ nStatus' = nStatus + 1
    /\ pc' = "st_close"
    /\ UNCHANGED <<args, locs, bufs, chan, ret, rd_qid, kr, kpool>>
    /\ UNCHANGED <<nSleep, nResult, obs, lastSleep, slept,
                   nWrite, nRead, nCancel, nResource, wr, tool>>

\* Inside the loop of qos_result the answer of the request is not read again
\* once the value is derived: the model drops it there.
qos_status_close ==
    /\ pc = "st_close"
    /\ Close
    /\ StatusReturns(qos_status_value(ioret, errno, req_state))
    /\ IF op = "result"
          THEN ioret' = 0 /\ errno' = 0 /\ req_state' = 0
          ELSE UNCHANGED <<ioret, errno, req_state>>
    /\ UNCHANGED <<args, bufs, rd_qid, kr, kpool>>
    /\ UNCHANGED <<elapsed_ms, interval_ms, unknown_cnt, timeout_ms, total_len>>
    /\ UNCHANGED <<nStatus, nSleep, nResult, lastSleep, slept,
                   nWrite, nRead, nCancel, nResource, wr, cancel_errno, nProgress>>

(* ------------------------------------------------------------------ *)
(* qos_result and wait_with_progress: the poll loop                     *)
(* ------------------------------------------------------------------ *)
qos_result_call ==
    /\ \E q \in QidInputs, onull \in BOOLEAN, t \in TimeoutInputs :
          Enter("result", q, t, onull, 0, NULL, NULL, qos_result_timeout_ms(t), 0)
    /\ IF qid' <= 0 \/ out_null'
          THEN Return(QOS_ERR_ARGS)
          ELSE pc' = "st_open" /\ ret' = 0

\* The caller repeats a qos_result that returned OK for a task in the state
\* success: same qid and timeout, and as output the same record, a new record
\* with other contents, or a new record of zeros.  The driver keeps reporting
\* success for the task and returns the record it returned before.
qos_result_again ==
    /\ pc = "done" /\ op = "result" /\ ret = QOS_OK
    /\ state = QOS_STATE_SUCCESS /\ ~prior.set
    /\ \E b \in {out, OutBefore, AllZeroResult} :
          /\ out' = b
          /\ prior' = [set |-> TRUE, out |-> out, kr |-> kr, buf |-> b]
    /\ UNCHANGED <<op, qid, timeout_s, out_null, show_progress, circuit, config,
                   conc, red, lay, pair, guard>>
    /\ state' = 0 /\ elapsed_ms' = 0 /\ interval_ms' = 50 /\ unknown_cnt' = 0
    /\ timeout_ms' = qos_result_timeout_ms(timeout_s) /\ total_len' = 0
    /\ ioret' = 0 /\ errno' = 0 /\ req_state' = 0 /\ rd_qid' = -1
    /\ kr' = NoReply /\ kpool' = NoPool
    /\ fd_open' = fd_open /\ opens' = 0 /\ closes' = 0 /\ openFails' = 0
    /\ pool' = PoolBefore
    /\ nStatus' = 0 /\ nSleep' = 0 /\ nResult' = 0 /\ nUnkObs' = 0
    /\ lastSleep' = 0 /\ gapSeen' = FALSE /\ slept' = 0
    /\ nWrite' = 0 /\ nRead' = 0 /\ nCancel' = 0 /\ nResource' = 0
    /\ wr_req' = 0 /\ wr_ret' = 0 /\ wr_buf' = ""
    /\ report' = "" /\ cancel_errno' = 0 /\ nProgress' = 0
    /\ pc' = "st_open" /\ ret' = 0

\* qrun calls it with the qid qos_submit returned (> 0) and its own record.
wait_with_progress_call ==
    /\ \E t \in TimeoutInputs, prog \in {0, 1} :
          Enter("wait", 1, t, FALSE, prog, NULL, NULL, wait_timeout_ms(t), 0)
    /\ pc' = "w_open" /\ ret' = 0

wait_open ==
    /\ pc = "w_open"
    /\ \/ /\ OpenOk
          /\ pc' = "w_ioctl"
          /\ UNCHANGED ret
       \/ /\ Return(QOS_ERR_OPEN_DEV)
          /\ OpenFail
    /\ UNCHANGED <<args, locs, reply, bufs, hist>>

wait_ioctl ==
    /\ pc = "w_ioctl"
    /\ StatusAnswer
    /\ nStatus' = nStatus + 1
    /\ pc' = "w_close"
    /\ UNCHANGED <<args, locs, bufs, chan, ret, rd_qid, kr, kpool>>
    /\ UNCHANGED <<nSleep, nResult, obs, lastSleep, slept,
                   nWrite, nRead, nCancel, nResource, wr, tool>>

wait_close ==
    /\ pc = "w_close"
    /\ Close
    /\ state' = wait_state_value(ioret, errno, req_state)
    /\ Observe(state')
    /\ ioret' = 0 /\ errno' = 0 /\ req_state' = 0
    /\ pc' = "eval"
    /\ UNCHANGED <<args, bufs, ret, rd_qid, kr, kpool>>
    /\ UNCHANGED <<elapsed_ms, interval_ms, unknown_cnt, timeout_ms, total_len>>
    /\ UNCHANGED <<nStatus, nSleep, nResult, lastSleep, slept,
                   nWrite, nRead, nCancel, nResource, wr, tool>>

\* The checks of one iteration, after the status is known (the same code in
\* qos_result and in wait_with_progress, which also prints the progress).
poll_eval ==
    /\ pc = "eval"
    /\ unknown_cnt' = UnknownCntAfter(state, unknown_cnt)
    /\ nProgress' = IF op = "wait"
                       THEN nProgress + ProgressLines(show_progress)
                       ELSE nProgress
    /\ LET v == IF op = "wait"
                   THEN WaitVerdict(guard, show_progress, state, unknown_cnt,
                                    timeout_ms, elapsed_ms)
                   ELSE PollVerdict(guard, state, unknown_cnt, timeout_ms,
                                    elapsed_ms)
       IN  \/ v = "fetch"     /\ pc' = "f_alloc" /\ UNCHANGED ret
           \/ v = "not_found" /\ Return(QOS_ERR_NOT_FOUND)
           \/ v = "timeout"   /\ Return(QOS_ERR_TIMEOUT)
           \/ v = "sleep"     /\ pc' = "sleep"   /\ UNCHANGED ret
    /\ UNCHANGED <<args, reply, bufs, chan, report, cancel_errno>>
    /\ UNCHANGED <<nStatus, nSleep, nResult, obs, lastSleep, slept,
                   nWrite, nRead, nCancel, nResource, wr>>
    /\ UNCHANGED <<state, elapsed_ms, interval_ms, timeout_ms, total_len>>

\* sleep_ms(interval_ms); elapsed_ms += interval_ms;
\* interval_ms = backoff_next_ms(interval_ms);
\* The next iteration overwrites state before reading it: the model drops it.
poll_sleep ==
    /\ pc = "sleep"
    /\ nSleep < MaxPolls
    /\ lastSleep' = interval_ms
    /\ slept' = slept + interval_ms
    /\ nSleep' = nSleep + 1
    /\ elapsed_ms' = Add32(elapsed_ms, interval_ms)
    /\ interval_ms' = backoff_next_ms(interval_ms)
    /\ state' = 0
    /\ pc' = IF op = "wait" THEN "w_open" ELSE "st_open"
    /\ UNCHANGED <<args, reply, bufs, chan, ret>>
    /\ UNCHANGED <<unknown_cnt, timeout_ms, total_len>>
    /\ UNCHANGED <<nStatus, nResult, obs,
                   nWrite, nRead, nCancel, nResource, wr, tool>>

(* ------------------------------------------------------------------ *)
(* qos_result and wait_with_progress: the result request                *)
(* ------------------------------------------------------------------ *)
\* if (!out) return QOS_OK;  (wait_with_progress only)  then calloc
\* kr->qid = qid;
fetch_alloc ==
    /\ pc = "f_alloc"
    /\ IF op = "wait" /\ out_null
          THEN Return(QOS_OK) /\ UNCHANGED kr
          ELSE \/ /\ pc' = "f_open" /\ UNCHANGED ret
                  /\ kr' = [NoReply EXCEPT !.qid = qid]
               \/ Return(QOS_ERR_NOMEM) /\ UNCHANGED kr
    /\ UNCHANGED <<args, locs, bufs, chan, hist>>
    /\ UNCHANGED <<ioret, errno, req_state, rd_qid, kpool>>

fetch_open ==
    /\ pc = "f_open"
    /\ \/ /\ OpenOk
          /\ pc' = "f_ioctl"
          /\ UNCHANGED ret
       \/ /\ Return(QOS_ERR_OPEN_DEV)
          /\ OpenFail
    /\ UNCHANGED <<args, locs, reply, bufs, hist>>

fetch_ioctl ==
    /\ pc = "f_ioctl"
    /\ IF prior.set
          THEN ioret' = 0 /\ errno' = 0 /\ kr' = prior.kr
          ELSE \/ /\ ioret' = 0 /\ errno' = 0
                  /\ \E d \in DriverResults : kr' = [d EXCEPT !.qid = kr.qid]
               \/ /\ ioret' = -1 /\ errno' \in Errnos /\ kr' = kr
    /\ nResult' = nResult + 1
    /\ pc' = "f_close"
    /\ UNCHANGED <<args, locs, bufs, chan, ret, req_state, rd_qid, kpool>>
    /\ UNCHANGED <<nStatus, nSleep, obs, lastSleep, slept,
                   nWrite, nRead, nCancel, nResource, wr, tool>>

\* Faulty variant: the caller's record is cleared before the request is
\* known to have succeeded.
fetch_close_clears ==
    /\ pc = "f_close"
    /\ Close
    /\ out' = ZeroResult(out)
    /\ IF ioret < 0
          THEN Return(QOS_ERR_IOCTL)
          ELSE pc' = "f_copy" /\ UNCHANGED ret
    /\ UNCHANGED <<args, locs, reply, pool, hist>>

\* Faulty variant: a failed result request is sent once more.
fetch_close_retry ==
    /\ pc = "f_close"
    /\ Close
    /\ IF ioret < 0
          THEN IF nResult < 2
                  THEN pc' = "f_open" /\ UNCHANGED ret
                  ELSE Return(QOS_ERR_IOCTL)
          ELSE pc' = "f_copy" /\ UNCHANGED ret
    /\ UNCHANGED <<args, locs, reply, bufs, hist>>

fetch_close ==
    /\ pc = "f_close"
    /\ Close
    /\ IF ioret < 0
          THEN Return(QOS_ERR_IOCTL)
          ELSE pc' = "f_copy" /\ UNCHANGED ret
    /\ UNCHANGED <<args, locs, reply, bufs, hist>>

\* if (out->num_outcomes > QOS_MAX_OUTCOMES) out->num_outcomes = QOS_MAX_OUTCOMES;
ClampOutcomes(n) == IF n > QOS_MAX_OUTCOMES THEN QOS_MAX_OUTCOMES ELSE n

\* Entry i of an array of a record, or what lies behind the array when i is
\* past its end.
Entry(arr, i, behind) == IF i \in DOMAIN arr THEN arr[i] ELSE behind

\* memset(out, 0, sizeof(*out)) and the copy of the kernel record k into the
\* caller's record o; e is the number of bytes printf reads behind an
\* error_info that holds no NUL.  The loop writes the entries 1..n (indices
\* 0..n-1 of the code): an entry past QOS_MAX_OUTCOMES would be a write behind
\* the array.
ResultCopy(o, k, e) ==
    LET z    == ZeroResult(o)
        n    == ClampOutcomes(k.num_outcomes)
        last == IF n > QOS_MAX_OUTCOMES THEN n ELSE QOS_MAX_OUTCOMES
    IN  [qid |-> k.qid, shots |-> k.shots, num_outcomes |-> n,
         keys |-> [i \in 1..last |->
                     IF i <= n
                         THEN KeyCopy(Entry(z.keys, i, GarbageArr(QOS_KEY_LEN)),
                                      Entry(k.keys, i, Text(99, QOS_KEY_LEN)))
                         ELSE z.keys[i]],
         counts |-> [i \in 1..last |->
                     IF i <= n THEN Entry(k.counts, i, -9) ELSE z.counts[i]],
         error_code |-> k.error_code,
         error_info |-> Snprintf(z.error_info, ErrorInfoSize,
                                 ReadString(k.error_info, ErrorInfoSize, e)),
         fidelity_score |-> z.fidelity_score,
         num_sub_circuits |-> z.num_sub_circuits]

fetch_copy ==
    /\ pc = "f_copy"
    /\ \E e \in {0, 9} : out' = ResultCopy(out, kr, e)
    /\ Return(qos_result_retcode(state))
    /\ UNCHANGED <<args, locs, reply, pool, chan, hist>>

(* ------------------------------------------------------------------ *)
(* qos_submit                                                           *)
(* ------------------------------------------------------------------ *)
\* if (!config) config = &default_cfg;
EffectiveConfig(cfg) == IF cfg.null THEN default_cfg ELSE cfg

\* Faulty variant: a total of exactly QOS_QIR_SIZE is let through.
TooLarge_above(total) == total > QOS_QIR_SIZE

\* if (total_len >= QOS_QIR_SIZE) return QOS_ERR_ARGS;
TooLarge(total) == total >= QOS_QIR_SIZE

\* total_len = header_len + circuit_len (0 here when circuit is NULL: the
\* call returns before it is computed).
SubmitTotalLen(circ, cfg) ==
    IF circ.null THEN 0 ELSE HeaderLen(EffectiveConfig(cfg)) + Len(circ.bytes)

\* The first total_len bytes of buf after
\* memcpy(buf, header, header_len); memcpy(buf + header_len, circuit, circuit_len);
SubmitBuf(circ, cfg) == Header(EffectiveConfig(cfg)) \o circ.bytes

qos_submit_call ==
    /\ \E circ \in CircuitInputs, cfg \in ConfigInputs :
          Enter("submit", 0, 0, FALSE, 0, circ, cfg, 0, SubmitTotalLen(circ, cfg))
    /\ IF circuit'.null
          THEN Return(QOS_ERR_ARGS)
          ELSE IF TooLarge(total_len')
                  THEN Return(QOS_ERR_ARGS)
                  ELSE pc' = "sub_alloc" /\ ret' = 0

\* buf = calloc(1, total_len + 1);
qos_submit_alloc ==
    /\ pc = "sub_alloc"
    /\ \/ pc' = "sub_open" /\ UNCHANGED ret
       \/ Return(QOS_ERR_NOMEM)
    /\ UNCHANGED <<args, locs, reply, bufs, chan, hist>>

qos_submit_open ==
    /\ pc = "sub_open"
    /\ \/ /\ OpenOk
          /\ pc' = "sub_write"
          /\ UNCHANGED ret
       \/ /\ Return(QOS_ERR_OPEN_DEV)
          /\ OpenFail
    /\ UNCHANGED <<args, locs, reply, bufs, hist>>

\* if (n < 0) failed
WriteFailed(n, total) == n < 0

\* Faulty variant: the failed write returns without closing the channel.
qos_submit_write_leak ==
    /\ pc = "sub_write"
    /\ wr_req' = total_len
    /\ wr_buf' = SubmitBuf(circuit, config)
    /\ nWrite' = nWrite + 1
    /\ \E n \in {-1, 0, total_len - 1, total_len} :
          /\ ioret' = n /\ wr_ret' = n
          /\ IF WriteFailed(n, total_len)
                THEN Return(QOS_ERR_SUBMIT) /\ UNCHANGED chan
                ELSE pc' = "sub_read" /\ UNCHANGED <<chan, ret>>
    /\ errno' = IF ioret' < 0 THEN 5 ELSE 0
    /\ UNCHANGED <<args, locs, bufs, req_state, rd_qid, kr, kpool>>
    /\ UNCHANGED <<nStatus, nSleep, nResult, obs, lastSleep, slept,
                   nRead, nCancel, nResource, tool>>

\* n = write(fd, buf, total_len): an error, a short count or the full count.
qos_submit_write ==
    /\ pc = "sub_write"
    /\ wr_req' = total_len
    /\ wr_buf' = SubmitBuf(circuit, config)
    /\ nWrite' = nWrite + 1
    /\ \E n \in {-1, 0, total_len - 1, total_len} :
          /\ ioret' = n /\ wr_ret' = n
          /\ IF WriteFailed(n, total_len)
                THEN Close /\ Return(QOS_ERR_SUBMIT)
                ELSE pc' = "sub_read" /\ UNCHANGED <<chan, ret>>
    /\ errno' = IF ioret' < 0 THEN 5 ELSE 0
    /\ UNCHANGED <<args, locs, bufs, req_state, rd_qid, kr, kpool>>
    /\ UNCHANGED <<nStatus, nSleep, nResult, obs, lastSleep, slept,
                   nRead, nCancel, nResource, tool>>

\* qid = -1; n = read(fd, &qid, sizeof(qid));
\* The driver supplies v.  A failed or empty read leaves the local at -1; a
\* read of 2 bytes overwrites its low half (the low bytes come first in the
\* memory of the machines the library is built for).
qos_submit_read ==
    /\ pc = "sub_read"
    /\ nRead' = nRead + 1
    /\ \E n \in {-1, 0, 2, 4}, v \in {-3, 0, 7} :
          /\ ioret' = n
          /\ rd_qid' = IF n >= 4 THEN v
                       ELSE IF n <= 0 THEN -1
                       ELSE ((-1) \div 65536) * 65536 + (v % 65536)
    /\ errno' = IF ioret' < 0 THEN 5 ELSE 0
    /\ pc' = "sub_check"
    /\ UNCHANGED <<args, locs, bufs, chan, ret, req_state, kr, kpool>>
    /\ UNCHANGED <<nStatus, nSleep, nResult, obs, lastSleep, slept,
                   nWrite, nCancel, nResource, wr, tool>>

\* Faulty variant: an identifier of 0 is accepted.
ReadBackBad_zero_ok(n, q) == n # 4 \/ q < 0

\* if (n != (ssize_t)sizeof(qid) || qid <= 0)
ReadBackBad(n, q) == n # 4 \/ q <= 0

\* close(fd); if (...) return QOS_ERR_SUBMIT; return qid;
qos_submit_check ==
    /\ pc = "sub_check"
    /\ Close
    /\ IF ReadBackBad(ioret, rd_qid)
          THEN Return(QOS_ERR_SUBMIT)
          ELSE Return(rd_qid)
    /\ UNCHANGED <<args, locs, reply, bufs, hist>>

(* ------------------------------------------------------------------ *)
(* qos_cancel                                                           *)
(* ------------------------------------------------------------------ *)
\* Faulty variant: qid is not checked before the channel is opened.
qos_cancel_call_unchecked ==
    /\ \E q \in QidInputs :
          Enter("cancel", q, 0, FALSE, 0, NULL, NULL, 0, 0)
    /\ pc' = "c_open" /\ ret' = 0

qos_cancel_call ==
    /\ \E q \in QidInputs :
          Enter("cancel", q, 0, FALSE, 0, NULL, NULL, 0, 0)
    /\ IF qid' <= 0
          THEN Return(QOS_ERR_ARGS)
          ELSE pc' = "c_open" /\ ret' = 0

\* Hand the value of qos_cancel to its caller.  qcancel switches on it: it
\* prints a line and exits, or (QOS_ERR_IOCTL) asks for the status first.
CancelReturns(v) ==
    IF op = "qcancel"
        THEN IF v = QOS_OK
                THEN report' = "cancelled" /\ Return(0)
             ELSE IF v = QOS_ERR_NOT_FOUND
                THEN report' = "not found" /\ Return(1)
             ELSE IF v = QOS_ERR_IOCTL
                THEN pc' = "st_open" /\ UNCHANGED <<ret, report>>
             ELSE report' = "cancel failed" /\ Return(1)
        ELSE Return(v) /\ UNCHANGED report

\* if (argc < 2) { usage(); return 1; }
\* if (strcmp(argv[1], "-h") == 0) { usage(); return 0; }
\* qid = atoi(argv[1]);
\* argv is argv[1..]; atoi gives the leading decimal number of the text, 0
\* when there is none.  The usage text is no report on a task: report stays
\* empty.
qcancel_main ==
    /\ \E argv \in {<<>>, <<"-h">>, <<"-1">>, <<"0">>, <<"1">>, <<"x">>,
                     <<"1", "-h">>} :
          /\ Enter("qcancel", IF Len(argv) < 1 \/ argv[1] = "-h" THEN 0
                              ELSE IF argv[1] = "1" THEN 1
                              ELSE IF argv[1] = "-1" THEN -1 ELSE 0,
                   0, FALSE, 0, NULL, NULL, 0, 0)
          /\ IF Len(argv) < 1 THEN Return(1)
             ELSE IF argv[1] = "-h" THEN Return(0)
             ELSE pc' = "qc_args" /\ ret' = 0

\* if (qid <= 0) { "invalid qid"; return 1; }  ret = qos_cancel(qid);
qcancel_args ==
    /\ pc = "qc_args"
    /\ IF qid <= 0
          THEN report' = "invalid qid" /\ Return(1)
          ELSE pc' = "c_open" /\ UNCHANGED <<ret, report>>
    /\ UNCHANGED <<args, locs, reply, bufs, chan, cancel_errno, nProgress>>
    /\ UNCHANGED <<nStatus, nSleep, nResult, obs, lastSleep, slept,
                   nWrite, nRead, nCancel, nResource, wr>>

qos_cancel_open ==
    /\ pc = "c_open"
    /\ \/ /\ OpenOk
          /\ pc' = "c_ioctl"
          /\ UNCHANGED <<ret, report>>
       \/ /\ CancelReturns(QOS_ERR_OPEN_DEV)
          /\ OpenFail
    /\ UNCHANGED <<args, locs, reply, bufs, cancel_errno, nProgress>>
    /\ UNCHANGED <<nStatus, nSleep, nResult, obs, lastSleep, slept,
                   nWrite, nRead, nCancel, nResource, wr>>

qos_cancel_ioctl ==
    /\ pc = "c_ioctl"
    /\ \/ ioret' = 0 /\ errno' = 0
       \/ ioret' = -1 /\ errno' \in Errnos
    /\ cancel_errno' = errno'
    /\ nCancel' = nCancel + 1
    /\ pc' = "c_close"
    /\ UNCHANGED <<args, locs, bufs, chan, ret, req_state, rd_qid, kr, kpool>>
    /\ UNCHANGED <<nStatus, nSleep, nResult, obs, lastSleep, slept,
                   nWrite, nRead, nResource, wr, report, nProgress>>

\* Faulty variant: a refusal as busy is taken for a done cancellation.
qos_cancel_value_busy_ok(r, e) ==
    IF r < 0
        THEN IF e = ENOENT THEN QOS_ERR_NOT_FOUND
             ELSE IF e = EBUSY THEN QOS_OK
             ELSE QOS_ERR_IOCTL
        ELSE QOS_OK

\* The value qos_cancel returns once the channel is closed.
qos_cancel_value(r, e) ==
    IF r < 0
        THEN IF e = ENOENT THEN QOS_ERR_NOT_FOUND
             ELSE IF e = EBUSY THEN QOS_ERR_IOCTL
             ELSE QOS_ERR_IOCTL
        ELSE QOS_OK

qos_cancel_close ==
    /\ pc = "c_close"
    /\ Close
    /\ CancelReturns(qos_cancel_value(ioret, errno))
    /\ UNCHANGED <<args, locs, reply, bufs, cancel_errno, nProgress>>
    /\ UNCHANGED <<nStatus, nSleep, nResult, obs, lastSleep, slept,
                   nWrite, nRead, nCancel, nResource, wr>>

(* ------------------------------------------------------------------ *)
(* qos_resource                                                         *)
(* ------------------------------------------------------------------ *)
qos_resource_call ==
    /\ \E onull \in BOOLEAN :
          Enter("resource", 0, 0, onull, 0, NULL, NULL, 0, 0)
    /\ IF out_null'
          THEN Return(QOS_ERR_ARGS)
          ELSE pc' = "res_alloc" /\ ret' = 0

qos_resource_alloc ==
    /\ pc = "res_alloc"
    /\ \/ pc' = "res_open" /\ UNCHANGED ret
       \/ Return(QOS_ERR_NOMEM)
    /\ UNCHANGED <<args, locs, reply, bufs, chan, hist>>

qos_resource_open ==
    /\ pc = "res_open"
    /\ \/ /\ OpenOk
          /\ pc' = "res_ioctl"
          /\ UNCHANGED ret
       \/ /\ Return(QOS_ERR_OPEN_DEV)
          /\ OpenFail
    /\ UNCHANGED <<args, locs, reply, bufs, hist>>

qos_resource_ioctl ==
    /\ pc = "res_ioctl"
    /\ \/ /\ ioret' = 0 /\ errno' = 0 /\ kpool' \in DriverPools
       \/ /\ ioret' = -1 /\ errno' \in Errnos /\ kpool' = kpool
    /\ nResource' = nResource + 1
    /\ pc' = "res_close"
    /\ UNCHANGED <<args, locs, bufs, chan, ret, req_state, rd_qid, kr>>
    /\ UNCHANGED <<nStatus, nSleep, nResult, obs, lastSleep, slept,
                   nWrite, nRead, nCancel, wr, tool>>

qos_resource_close ==
    /\ pc = "res_close"
    /\ Close
    /\ IF ioret < 0
          THEN Return(QOS_ERR_IOCTL)
          ELSE pc' = "res_copy" /\ UNCHANGED ret
    /\ UNCHANGED <<args, locs, reply, bufs, hist>>

\* Faulty variant: the count of the driver is taken as it is.
ClampBackends_none(n) == n

\* if (out->num_backends > QOS_MAX_BACKENDS) out->num_backends = QOS_MAX_BACKENDS;
ClampBackends(n) == IF n > QOS_MAX_BACKENDS THEN QOS_MAX_BACKENDS ELSE n

\* memset(out, 0, sizeof(*out));
ZeroBackend ==
    [id |-> 0, name |-> ZeroArr, total_qubits |-> 0, state |-> 0,
     current_qid |-> 0, fidelity_score |-> 0, num_qubits_available |-> 0,
     connectivity_type |-> 0]
ZeroPool(o) ==
    [num_backends |-> 0,
     backends |-> [i \in 1..QOS_MAX_BACKENDS |-> ZeroBackend]]

\* The body of the loop: seven int fields and the name of one entry.
BackendCopy(dst, src) ==
    [id |-> src.id, name |-> Strncpy(dst.name, src.name, NameSize - 1),
     total_qubits |-> src.total_qubits, state |-> src.state,
     current_qid |-> src.current_qid, fidelity_score |-> src.fidelity_score,
     num_qubits_available |-> src.num_qubits_available,
     connectivity_type |-> src.connectivity_type]

\* memset(out, 0, sizeof(*out)) and the copy of the kernel pool k into the
\* caller's record o.  The loop writes the entries 1..n: an entry past
\* QOS_MAX_BACKENDS would be a write behind the array, from bytes behind the
\* kernel record.
PoolCopy(o, k) ==
    LET z    == ZeroPool(o)
        n    == ClampBackends(k.num_backends)
        last == IF n > QOS_MAX_BACKENDS THEN n ELSE QOS_MAX_BACKENDS
    IN  [num_backends |-> n,
         backends |-> [i \in 1..last |->
                         IF i <= n
                             THEN BackendCopy(Entry(z.backends, i, GarbageBackend),
                                              Entry(k.backends, i, KernBackend(99)))
                             ELSE z.backends[i]]]

qos_resource_copy ==
    /\ pc = "res_copy"
    /\ pool' = PoolCopy(pool, kpool)
    /\ Return(QOS_OK)
    /\ UNCHANGED <<args, locs, reply, out, chan, hist>>

(* ------------------------------------------------------------------ *)
(* Specification                                                        *)
(* ------------------------------------------------------------------ *)
Next ==
    \/ caller_resumes
    \/ qos_status_call \/ qos_status_open \/ qos_status_ioctl \/ qos_status_close
    \/ qos_result_call \/ qos_result_again \/ wait_with_progress_call
    \/ wait_open \/ wait_ioctl \/ wait_close
    \/ poll_eval \/ poll_sleep
    \/ fetch_alloc \/ fetch_open \/ fetch_ioctl \/ fetch_close \/ fetch_copy
    \/ qos_submit_call \/ qos_submit_alloc \/ qos_submit_open
    \/ qos_submit_write \/ qos_submit_read \/ qos_submit_check
    \/ qos_cancel_call \/ qos_cancel_open \/ qos_cancel_ioctl \/ qos_cancel_close
    \/ qcancel_main \/ qcancel_args
    \/ qos_resource_call \/ qos_resource_alloc \/ qos_resource_open
    \/ qos_resource_ioctl \/ qos_resource_close \/ qos_resource_copy

Spec == Init /\ [][Next]_vars

(* ------------------------------------------------------------------ *)
(* Specification of the concurrent calls                                *)
(* ------------------------------------------------------------------ *)
\* Everything but conc: the one call followed by Spec, which is not running.
seqvars ==
    <<op, qid, timeout_s, out_null, show_progress, circuit, config, prior, guard,
      locs, reply, bufs, chan, hist, pc, ret>>

\* Thread t enters qos_result(qid, out, timeout_s) with qid > 0 and a record.
conc_call(t) ==
    /\ conc.loc[t].pc = "idle"
    /\ \E tmo \in ConcTimeouts :
          conc' = [conc EXCEPT
                     !.loc[t] = [IdleCall EXCEPT
                                   !.pc = "st_open", !.qid = t,
                                   !.timeout_ms = qos_result_timeout_ms(tmo)],
                     !.cnt[CounterCell(t)] = 0,
                     !.ref[t] = IdleRef]
    /\ UNCHANGED <<seqvars, red, lay, pair>>

\* qos_status: fd = open_dev(); if (fd < 0) return fd;
conc_status_open(t) ==
    /\ conc.loc[t].pc = "st_open"
    /\ \/ LET fd == LowestFree(conc.fds)
          IN  conc' = [conc EXCEPT !.loc[t].fd = fd, !.loc[t].pc = "st_ioctl",
                                   !.fds = @ \cup {fd}]
       \/ conc' = [conc EXCEPT !.loc[t].state = QOS_ERR_OPEN_DEV,
                                !.loc[t].pc = "eval"]
    /\ UNCHANGED <<seqvars, red, lay, pair>>

\* ret = ioctl(fd, QIOC_STATUS, &req): the driver answers with a state.
conc_status_ioctl(t) ==
    /\ conc.loc[t].pc = "st_ioctl"
    /\ \E v \in ConcStates :
          conc' = [conc EXCEPT !.loc[t].state = v, !.loc[t].pc = "st_close"]
    /\ UNCHANGED <<seqvars, red, lay, pair>>

\* close(fd); return req.state;
conc_status_close(t) ==
    /\ conc.loc[t].pc = "st_close"
    /\ conc' = [conc EXCEPT !.fds = @ \ {conc.loc[t].fd},
                             !.loc[t].fd = -1, !.loc[t].pc = "eval"]
    /\ UNCHANGED <<seqvars, red, lay, pair>>

\* The return value of a call that ends in the loop.
VerdictRet(v) ==
    IF v = "not_found" THEN QOS_ERR_NOT_FOUND
    ELSE IF v = "timeout" THEN QOS_ERR_TIMEOUT
    ELSE 0

\* The checks of one iteration, on the counter of the call; the reference
\* makes them on a counter no other call can reach.  timeout_ms is positive
\* for every timeout of ConcTimeouts, so the deadline test reads the same
\* with and without timeout_ms > 0.
conc_eval(t) ==
    /\ conc.loc[t].pc = "eval"
    /\ LET l  == conc.loc[t]
           c  == CounterCell(t)
           v  == PollVerdict(TRUE, l.state, conc.cnt[c], l.timeout_ms,
                             l.elapsed_ms)
           rv == PollVerdict(TRUE, l.state, conc.ref[t].unknown_cnt,
                             l.timeout_ms, l.elapsed_ms)
       IN  conc' = [conc EXCEPT
                      !.cnt[c] = UnknownCntAfter(l.state, @),
                      !.ref[t] = [unknown_cnt |->
                                     UnknownCntAfter(l.state, @.unknown_cnt),
                                  verdict |-> rv],
                      !.loc[t].verdict = v,
                      !.loc[t].ret = VerdictRet(v),
                      !.loc[t].pc = IF v = "fetch" THEN "f_open"
                                    ELSE IF v = "sleep" THEN "sleep"
                                    ELSE "done"]
    /\ UNCHANGED <<seqvars, red, lay, pair>>

\* sleep_ms(interval_ms); elapsed_ms += interval_ms;
\* interval_ms = backoff_next_ms(interval_ms);  (state is overwritten by the
\* next iteration before it is read: the model drops it)
conc_sleep(t) ==
    /\ conc.loc[t].pc = "sleep"
    /\ conc.loc[t].nSleep < ConcPolls
    /\ conc' = [conc EXCEPT
                   !.loc[t].elapsed_ms = Add32(@, conc.loc[t].interval_ms),
                   !.loc[t].interval_ms = backoff_next_ms(@),
                   !.loc[t].nSleep = @ + 1,
                   !.loc[t].state = 0,
                   !.loc[t].pc = "st_open"]
    /\ UNCHANGED <<seqvars, red, lay, pair>>

\* kr = calloc(...); fd = open_dev();
conc_fetch_open(t) ==
    /\ conc.loc[t].pc = "f_open"
    /\ \/ conc' = [conc EXCEPT !.loc[t].ret = QOS_ERR_NOMEM, !.loc[t].pc = "done"]
       \/ LET fd == LowestFree(conc.fds)
          IN  conc' = [conc EXCEPT !.loc[t].fd = fd, !.loc[t].pc = "f_ioctl",
                                   !.fds = @ \cup {fd}]
       \/ conc' = [conc EXCEPT !.loc[t].ret = QOS_ERR_OPEN_DEV,
                                !.loc[t].pc = "done"]
    /\ UNCHANGED <<seqvars, red, lay, pair>>

\* ret = ioctl(fd, QIOC_RESULT, kr);
conc_fetch_ioctl(t) ==
    /\ conc.loc[t].pc = "f_ioctl"
    /\ \E r \in {0, -1} :
          conc' = [conc EXCEPT !.loc[t].ioret = r, !.loc[t].pc = "f_close"]
    /\ UNCHANGED <<seqvars, red, lay, pair>>

\* close(fd); if (ret < 0) return QOS_ERR_IOCTL; ... return QOS_OK;
conc_fetch_close(t) ==
    /\ conc.loc[t].pc = "f_close"
    /\ conc' = [conc EXCEPT
                   !.fds = @ \ {conc.loc[t].fd},
                   !.loc[t].fd = -1,
                   !.loc[t].ret = IF conc.loc[t].ioret < 0
                                     THEN QOS_ERR_IOCTL
                                     ELSE qos_result_retcode(conc.loc[t].state),
                   !.loc[t].pc = "done"]
    /\ UNCHANGED <<seqvars, red, lay, pair>>

\* The caller of thread t has taken the return value; the locals of the call
\* are gone.
conc_return(t) ==
    /\ conc.loc[t].pc = "done"
    /\ conc' = [conc EXCEPT !.loc[t] = IdleCall, !.ref[t] = IdleRef,
                             !.cnt[CounterCell(t)] = 0]
    /\ UNCHANGED <<seqvars, red, lay, pair>>

NextConc ==
    \E t \in Threads :
        \/ conc_call(t) \/ conc_status_open(t) \/ conc_status_ioctl(t)
        \/ conc_status_close(t) \/ conc_eval(t) \/ conc_sleep(t)
        \/ conc_fetch_open(t) \/ conc_fetch_ioctl(t) \/ conc_fetch_close(t)
        \/ conc_return(t)

SpecConc == Init /\ [][NextConc]_vars

(* ------------------------------------------------------------------ *)
(* Specification of the reduced profile                                 *)
(* ------------------------------------------------------------------ *)
\* What the reduced qos_status returns once the channel is closed: the return
\* value of the ioctl is the state.
reduced_status_value(r) == IF r < 0 THEN QERR_STATUS ELSE r

\* unknown_count after the checks of one iteration of the reduced qos_result.
ReducedCountAfter(st, cnt) == IF st = QTASK_STATE_UNKNOWN THEN cnt + 1 ELSE 0

\* The way one iteration of the reduced loop ends, the checks in the order
\* of the code.
ReducedVerdict(st, cnt, tmo_s, el) ==
    IF st = QTASK_STATE_SUCCESS THEN "fetch"
    ELSE IF st = QTASK_STATE_FAILED THEN "failed"
    ELSE IF st = QTASK_STATE_UNKNOWN /\ cnt + 1 >= 3 THEN "not_found"
    ELSE IF tmo_s > 0 /\ el >= tmo_s THEN "timeout"
    ELSE "sleep"

\* The return value of a reduced call that ends in the loop.
ReducedVerdictRet(v) ==
    IF v = "failed" THEN QERR_RESULT
    ELSE IF v = "not_found" THEN QERR_NOT_FOUND
    ELSE IF v = "timeout" THEN QERR_TIMEOUT
    ELSE 0

\* strncpy(dst, src, sizeof(dst)): all the bytes of dst are written, and no
\* NUL is stored when src holds sizeof(dst) bytes or more.
StrncpyAll(dst, src, n) == [text |-> Prefix(src, n), clean |-> TRUE]

\* The bytes of struct kern_result from member j on before the first NUL:
\* members 1..QUANTUM_MAX_OUTCOMES are keys[], the ones behind them counts[],
\* each an int in two's complement with its low byte first.  A read that
\* starts in keys[] and is cut at QUANTUM_KEY_LEN - 1 bytes ends inside
\* counts[] at the latest.
RECURSIVE KeyRunOn(_, _)
KeyRunOn(k, j) ==
    IF j > 2 * QUANTUM_MAX_OUTCOMES THEN 0
    ELSE IF j > QUANTUM_MAX_OUTCOMES
       THEN LET c == k.counts[j - QUANTUM_MAX_OUTCOMES]
            IN  IF c % 256 = 0 THEN 0
                ELSE IF (c \div 256) % 256 = 0 THEN 1
                ELSE IF (c \div 65536) % 256 = 0 THEN 2
                ELSE IF (c \div 16777216) % 256 = 0 THEN 3
                ELSE 4 + KeyRunOn(k, j + 1)
    ELSE IF k.keys[j].len < KernKeyLen THEN k.keys[j].len
    ELSE KernKeyLen + KeyRunOn(k, j + 1)

\* The copy of the kernel record k into the caller's record o by the reduced
\* qos_result: no memset, num_outcomes as the driver gave it, and the entries
\* below both num_outcomes and QUANTUM_MAX_OUTCOMES.  A key of the kernel
\* record that holds no NUL is read on into the bytes behind it.
ReducedResultCopy(o, k) ==
    LET n == IF k.num_outcomes > QUANTUM_MAX_OUTCOMES
                THEN QUANTUM_MAX_OUTCOMES ELSE k.num_outcomes
    IN  [qid |-> k.qid, shots |-> k.shots, num_outcomes |-> k.num_outcomes,
         keys |-> [i \in 1..QUANTUM_MAX_OUTCOMES |->
                     IF i <= n
                         THEN Strncpy(o.keys[i],
                                      ReadString(k.keys[i], KernKeyLen,
                                                 KeyRunOn(k, i + 1)),
                                      QUANTUM_KEY_LEN - 1)
                         ELSE o.keys[i]],
         counts |-> [i \in 1..QUANTUM_MAX_OUTCOMES |->
                     IF i <= n THEN k.counts[i] ELSE o.counts[i]],
         error_code |-> k.error_code,
         error_info |-> Snprintf(o.error_info, ErrorInfoSize,
                                 ReadString(k.error_info, ErrorInfoSize, 0))]

\* The copy of the kernel pool k into the caller's pool o by the reduced
\* qos_resource: num_backends as the driver gave it, and the entries below
\* both num_backends and QUANTUM_MAX_BACKENDS.
ReducedPoolCopy(o, k) ==
    LET n == IF k.num_backends > QUANTUM_MAX_BACKENDS
                THEN QUANTUM_MAX_BACKENDS ELSE k.num_backends
    IN  [num_backends |-> k.num_backends,
         backends |-> [i \in 1..QUANTUM_MAX_BACKENDS |->
                         IF i <= n
                             THEN [id |-> k.backends[i].id,
                                   name |-> StrncpyAll(o.backends[i].name,
                                                       k.backends[i].name,
                                                       NameSize),
                                   total_qubits |-> k.backends[i].total_qubits,
                                   state |-> k.backends[i].state,
                                   current_qid |-> k.backends[i].current_qid]
                             ELSE o.backends[i]]]

\* The loop of the canonical qos_result run on the statuses seq[i..]: the way
\* it ends, or "more" when it asks for a status behind the end of seq.  The
\* timeouts it is run on (RedTimeouts) have products that fit an int.
RECURSIVE CanonRun(_, _, _, _, _, _)
CanonRun(seq, i, cnt, tmo, el, iv) ==
    IF i > Len(seq) THEN "more"
    ELSE LET v == PollVerdict(TRUE, seq[i], cnt, tmo, el)
         IN  IF v = "sleep"
                 THEN CanonRun(seq, i + 1, UnknownCntAfter(seq[i], cnt), tmo,
                               Add32(el, iv), backoff_next_ms(iv))
                 ELSE v

\* The canonical qos_result called with timeout_s = t on the statuses seq.
CanonClass(t, seq) == CanonRun(seq, 1, 0, qos_result_timeout_ms(t), 0, 50)

\* A step of the reduced-profile call to the record r.
RedStep(r) == red' = r /\ UNCHANGED <<seqvars, conc, lay, pair>>

\* qos_result(qid, out, timeout_s) of the reduced profile: if (!out) return
\* QERR_RESULT; qid is not checked.
red_result_call ==
    /\ red.pc = "idle"
    /\ \E t \in RedTimeouts, onull \in BOOLEAN :
          RedStep([RedInit EXCEPT
                     !.op = "result", !.qid = 1, !.timeout_s = t,
                     !.out_null = onull,
                     !.pc = IF onull THEN "done" ELSE "st_open",
                     !.ret = IF onull THEN QERR_RESULT ELSE 0])

\* qos_status: fd = open_dev(); if (fd < 0) return fd;
red_status_open ==
    /\ red.pc = "st_open"
    /\ \/ RedStep([red EXCEPT !.pc = "st_ioctl"])
       \/ RedStep([red EXCEPT !.st = QERR_OPEN_DEV,
                              !.seen = Append(@, QOS_ERR_OPEN_DEV),
                              !.pc = "eval"])

\* ret = ioctl(fd, QIOC_STATUS, &qid): the state, or -1 and errno.
red_status_ioctl ==
    /\ red.pc = "st_ioctl"
    /\ \/ \E v \in RedStates :
            RedStep([red EXCEPT !.ioret = v, !.errno = 0, !.pc = "st_close"])
       \/ \E e \in {ENOENT, 5} :
            RedStep([red EXCEPT !.ioret = -1, !.errno = e, !.pc = "st_close"])

\* close(fd); if (ret < 0) return QERR_STATUS; return ret;
\* seen records what the canonical qos_status returns for the same answer.
red_status_close ==
    /\ red.pc = "st_close"
    /\ RedStep([red EXCEPT
                   !.st = reduced_status_value(red.ioret),
                   !.seen = Append(@, qos_status_value(
                                         IF red.ioret < 0 THEN -1 ELSE 0,
                                         red.errno, red.ioret)),
                   !.ioret = 0, !.errno = 0,
                   !.pc = "eval"])

\* The checks of one iteration of the loop of the reduced qos_result.
red_eval ==
    /\ red.pc = "eval"
    /\ LET v == ReducedVerdict(red.st, red.unknown_count,
                               red.timeout_s, red.elapsed)
       IN  RedStep([red EXCEPT
                      !.unknown_count = ReducedCountAfter(red.st, @),
                      !.verdict = v,
                      !.ret = ReducedVerdictRet(v),
                      !.pc = IF v = "fetch" THEN "f_alloc"
                             ELSE IF v = "sleep" THEN "sleep"
                             ELSE "done"])

\* sleep(1); elapsed++;
red_sleep ==
    /\ red.pc = "sleep"
    /\ red.elapsed < RedPolls
    /\ RedStep([red EXCEPT !.elapsed = @ + 1, !.st = 0, !.pc = "st_open"])

\* kr = calloc(1, sizeof(*kr)); if (!kr) return QERR_RESULT; kr->qid = qid;
red_fetch_alloc ==
    /\ red.pc = "f_alloc"
    /\ \/ RedStep([red EXCEPT !.kr = [RedNoReply EXCEPT !.qid = red.qid],
                              !.pc = "f_open"])
       \/ RedStep([red EXCEPT !.ret = QERR_RESULT, !.pc = "done"])

\* fd = open_dev(); if (fd < 0) return fd;
red_fetch_open ==
    /\ red.pc = "f_open"
    /\ \/ RedStep([red EXCEPT !.pc = "f_ioctl"])
       \/ RedStep([red EXCEPT !.ret = QERR_OPEN_DEV, !.pc = "done"])

\* ret = ioctl(fd, QIOC_RESULT, kr);
red_fetch_ioctl ==
    /\ red.pc = "f_ioctl"
    /\ \/ \E d \in RedDriverResults :
            RedStep([red EXCEPT !.ioret = 0, !.nResult = @ + 1,
                                !.kr = [d EXCEPT !.qid = red.kr.qid],
                                !.pc = "f_close"])
       \/ RedStep([red EXCEPT !.ioret = -1, !.nResult = @ + 1,
                              !.pc = "f_close"])

\* close(fd); if (ret < 0) return QERR_RESULT;
red_fetch_close ==
    /\ red.pc = "f_close"
    /\ IF red.ioret < 0
          THEN RedStep([red EXCEPT !.ret = QERR_RESULT, !.pc = "done"])
          ELSE RedStep([red EXCEPT !.pc = "f_copy"])

\* The copy into *out; return QERR_OK;
red_fetch_copy ==
    /\ red.pc = "f_copy"
    /\ RedStep([red EXCEPT !.out = ReducedResultCopy(red.out, red.kr),
                           !.ret = QERR_OK, !.pc = "done"])

\* qresource: pool = calloc(1, sizeof(*pool)); if (!pool) return 1;
\* ret = qos_resource(pool);
red_qresource_main ==
    /\ red.pc = "idle"
    /\ \/ RedStep([RedInit EXCEPT !.op = "qresource", !.pc = "res_alloc"])
       \/ RedStep([RedInit EXCEPT !.op = "qresource", !.pc = "done", !.ret = 1])

\* kp = calloc(1, sizeof(*kp)); if (!kp) return QERR_RESOURCE;
red_resource_alloc ==
    /\ red.pc = "res_alloc"
    /\ \/ RedStep([red EXCEPT !.pc = "res_open"])
       \/ RedStep([red EXCEPT !.ret = QERR_RESOURCE, !.pc = "print"])

\* fd = open_dev(); if (fd < 0) return fd;
red_resource_open ==
    /\ red.pc = "res_open"
    /\ \/ RedStep([red EXCEPT !.pc = "res_ioctl"])
       \/ RedStep([red EXCEPT !.ret = QERR_OPEN_DEV, !.pc = "print"])

\* ret = ioctl(fd, QIOC_RESOURCE, kp);
red_resource_ioctl ==
    /\ red.pc = "res_ioctl"
    /\ \/ \E k \in RedDriverPools :
            RedStep([red EXCEPT !.ioret = 0, !.kp = k, !.pc = "res_close"])
       \/ RedStep([red EXCEPT !.ioret = -1, !.pc = "res_close"])

\* close(fd); if (ret < 0) return QERR_RESOURCE;
red_resource_close ==
    /\ red.pc = "res_close"
    /\ IF red.ioret < 0
          THEN RedStep([red EXCEPT !.ret = QERR_RESOURCE, !.pc = "print"])
          ELSE RedStep([red EXCEPT !.pc = "res_copy"])

\* The copy into *out; return QERR_OK;
red_resource_copy ==
    /\ red.pc = "res_copy"
    /\ RedStep([red EXCEPT !.pool = ReducedPoolCopy(red.pool, red.kp),
                           !.ret = QERR_OK, !.pc = "print"])

\* qresource, with the value of qos_resource in ret:
\* if (ret != QERR_OK) { "query failed (err=%d)"; return 1; }
\* for (i = 0; i < pool->num_backends; i++) print backends[i];  return 0;
\* err is the value in the failure line; printed is the number of entries
\* read, the last at index printed - 1.
red_qresource_print ==
    /\ red.pc = "print"
    /\ IF red.ret # QERR_OK
          THEN RedStep([red EXCEPT !.err = red.ret, !.ret = 1, !.pc = "done"])
          ELSE RedStep([red EXCEPT
                          !.printed = IF red.pool.num_backends > 0
                                         THEN red.pool.num_backends ELSE 0,
                          !.ret = 0, !.pc = "done"])

\* The caller has taken the return value.
red_return ==
    /\ red.pc = "done"
    /\ RedStep(RedInit)

NextReduced ==
    \/ red_result_call \/ red_status_open \/ red_status_ioctl
    \/ red_status_close \/ red_eval \/ red_sleep
    \/ red_fetch_alloc \/ red_fetch_open \/ red_fetch_ioctl
    \/ red_fetch_close \/ red_fetch_copy
    \/ red_qresource_main \/ red_resource_alloc \/ red_resource_open
    \/ red_resource_ioctl \/ red_resource_close \/ red_resource_copy
    \/ red_qresource_print \/ red_return

SpecReduced == Init /\ [][NextReduced]_vars

(* ------------------------------------------------------------------ *)
(* Specification of the decoding of the pool record                     *)
(* ------------------------------------------------------------------ *)
\* The client goes on to the next byte of the record the driver wrote.
layout_next_byte ==
    /\ lay.off + 1 < PoolSize(DriverBackendFields)
    /\ lay' = [off |-> lay.off + 1,
               driver |-> PoolFieldAt(DriverBackendFields, lay.off + 1),
               mirror |-> PoolFieldAt(MirrorBackendFields, lay.off + 1)]
    /\ UNCHANGED <<seqvars, conc, red, pair>>

NextLayout == layout_next_byte

SpecLayout == Init /\ [][NextLayout]_vars

(* ------------------------------------------------------------------ *)
(* qos_result and wait_with_progress given the same answers             *)
(* ------------------------------------------------------------------ *)
PairStep(p) == pair' = p /\ UNCHANGED <<seqvars, conc, red, lay>>

\* qos_result(q, out, t) in one process and wait_with_progress(q, prog, t,
\* out) in another, for the same task.  The two functions are compiled
\* separately (the library and qrun), so where timeout_s * 1000 overflows
\* each has its own outcome of the test timeout_ms > 0.  The two processes
\* run independently from here on.
pair_call ==
    /\ pair.lib.pc = "idle" /\ pair.run.pc = "idle"
    /\ \E t \in PairTimeouts, prog \in {0, 1},
          q \in {x \in QidInputs : x > 0} :
       \E gl \in GuardOutcomes(t), gr \in GuardOutcomes(t) :
          PairStep([PairInit EXCEPT
                       !.qid = q, !.timeout_s = t, !.show_progress = prog,
                       !.lib.pc = "open", !.lib.guard = gl,
                       !.lib.timeout_ms = qos_result_timeout_ms(t),
                       !.run.pc = "open", !.run.guard = gr,
                       !.run.timeout_ms = wait_timeout_ms(t)])

\* fd = open(QUANTUM_DEV_PATH, O_RDWR) of process s, before the status
\* request and before the result request.  When it fails before a status
\* request, qos_status returns QOS_ERR_OPEN_DEV, which qos_result takes as
\* the state, and wait_with_progress returns QOS_ERR_OPEN_DEV; when it fails
\* before the result request both free the record and return
\* QOS_ERR_OPEN_DEV.
pair_open(s) ==
    LET m == pair[s]
        o == pair[IF s = "lib" THEN "run" ELSE "lib"]
    IN  /\ m.pc \in {"open", "f_open"}
        /\ (m.pc = "open" /\ o.pc \in {"open", "ioctl", "close", "eval",
                                        "sleep"}) =>
              m.nStatus < o.nStatus + PairLag
        /\ \/ PairStep([pair EXCEPT
                  ![s].fd = 1,
                  ![s].pc = IF @ = "open" THEN "ioctl" ELSE "f_ioctl"])
           \/ /\ pair.openFails < PairOpenFails
              /\ PairStep([pair EXCEPT
                    !.openFails = @ + 1,
                    ![s] = IF m.pc = "open" /\ s = "lib"
                              THEN [m EXCEPT !.state = QOS_ERR_OPEN_DEV,
                                             !.pc = "eval"]
                              ELSE [m EXCEPT !.ret = QOS_ERR_OPEN_DEV,
                                             !.pc = "done"]])

\* ret = ioctl(fd, QIOC_STATUS, &req) and ret = ioctl(fd, QIOC_RESULT, kr) of
\* process s.  The n-th status request of a process is given the n-th answer
\* of the driver, which the driver chooses when the request is the first of
\* that number; the result request likewise.  The driver fills the result
\* behind the qid of the record it was handed.
pair_ioctl(s) ==
    LET m == pair[s]
        o == pair[IF s = "lib" THEN "run" ELSE "lib"]
        behind == m.nStatus < o.nStatus
    IN  \/ /\ m.pc = "ioctl"
           /\ \E r \in {0, -1} :
              \E e \in (IF r < 0 THEN {ENOENT, EBUSY} ELSE {0}) :
              \E st \in (IF r < 0 THEN {0}
                         ELSE {QOS_STATE_UNKNOWN, QOS_STATE_RUNNING,
                               QOS_STATE_SUCCESS, QOS_STATE_FAILED,
                               QOS_STATE_CANCELLED}) :
                 /\ behind => pair.answers[1] = <<r, e, st>>
                 /\ PairStep([pair EXCEPT
                        !.answers = IF behind THEN Tail(@)
                                    ELSE Append(@, <<r, e, st>>),
                        !.failed = @ \/ (r < 0 /\ e # ENOENT),
                        ![s] = [m EXCEPT !.nStatus = @ + 1, !.ioret = r,
                                         !.errno = e, !.req_state = st,
                                         !.pc = "close"]])
        \/ /\ m.pc = "f_ioctl"
           /\ \E r \in {0, -1} :
              \E k \in (IF r < 0 THEN {NoReply} ELSE DriverResults) :
                 /\ pair.result # <<>> => pair.result = <<r, k>>
                 /\ PairStep([pair EXCEPT
                        !.result = <<r, k>>,
                        ![s] = [m EXCEPT
                                  !.nResult = @ + 1, !.ioret = r,
                                  !.kr = IF r < 0 THEN @
                                         ELSE [k EXCEPT !.qid = m.kr.qid],
                                  !.pc = "f_close"]])

\* close(fd) of process s and what follows up to the next test: the value
\* of state after a status request, if (ret < 0) return QOS_ERR_IOCTL after
\* a result request.
pair_close(s) ==
    LET m == pair[s]
    IN  /\ m.pc \in {"close", "f_close"}
        /\ PairStep([pair EXCEPT ![s] =
              IF m.pc = "close"
                 THEN [m EXCEPT
                         !.fd = 0, !.pc = "eval",
                         !.state = IF s = "lib"
                                      THEN qos_status_value(m.ioret, m.errno,
                                                            m.req_state)
                                      ELSE wait_state_value(m.ioret, m.errno,
                                                            m.req_state)]
              ELSE IF m.ioret < 0
                 THEN [m EXCEPT !.fd = 0, !.pc = "done", !.ret = QOS_ERR_IOCTL]
              ELSE [m EXCEPT !.fd = 0, !.pc = "f_copy"]])

\* The checks of one iteration of the loop of process s, up to the call of
\* sleep_ms.
pair_eval(s) ==
    LET m == pair[s]
        v == IF s = "lib"
                THEN PollVerdict(m.guard, m.state, m.unknown_cnt,
                                 m.timeout_ms, m.elapsed_ms)
                ELSE WaitVerdict(m.guard, pair.show_progress, m.state,
                                 m.unknown_cnt, m.timeout_ms, m.elapsed_ms)
        b == [m EXCEPT !.unknown_cnt = UnknownCntAfter(m.state, @)]
    IN  /\ m.pc = "eval"
        /\ v = "sleep" => Len(m.sleeps) < PairPolls
        /\ PairStep([pair EXCEPT ![s] =
              IF v = "fetch" THEN [b EXCEPT !.pc = "f_alloc"]
              ELSE IF v = "not_found"
                 THEN [b EXCEPT !.pc = "done", !.ret = QOS_ERR_NOT_FOUND]
              ELSE IF v = "timeout"
                 THEN [b EXCEPT !.pc = "done", !.ret = QOS_ERR_TIMEOUT]
              ELSE [b EXCEPT !.pc = "sleep"]])

\* sleep_ms(interval_ms) of process s returns;
\* elapsed_ms += interval_ms; interval_ms = backoff_next_ms(interval_ms);
pair_sleep(s) ==
    LET m == pair[s]
    IN  /\ m.pc = "sleep"
        /\ PairStep([pair EXCEPT ![s] =
              [m EXCEPT !.sleeps = Append(@, m.interval_ms),
                        !.elapsed_ms = Add32(m.elapsed_ms, m.interval_ms),
                        !.interval_ms = backoff_next_ms(m.interval_ms),
                        !.pc = "open"]])

\* kr = calloc(1, sizeof(*kr)); if (!kr) return QOS_ERR_NOMEM;
\* kr->qid = qid;   in process s.  Both processes are given the same outcome
\* of calloc.
pair_alloc(s) ==
    /\ pair[s].pc = "f_alloc"
    /\ \E ok \in BOOLEAN :
          /\ pair.alloc # <<>> => pair.alloc = <<ok>>
          /\ PairStep([pair EXCEPT
                 !.alloc = <<ok>>,
                 ![s].kr = IF ok THEN [NoReply EXCEPT !.qid = pair.qid] ELSE @,
                 ![s].pc = IF ok THEN "f_open" ELSE "done",
                 ![s].ret = IF ok THEN @ ELSE QOS_ERR_NOMEM])

\* memset(out, 0, sizeof(*out)) and the copy of the record in process s; e
\* is the number of bytes behind an error_info without NUL in its heap.
pair_copy(s) ==
    LET m == pair[s]
    IN  /\ m.pc = "f_copy"
        /\ \E e \in {0, 9} :
              PairStep([pair EXCEPT ![s] =
                 [m EXCEPT !.out = ResultCopy(m.out, m.kr, e),
                           !.ret = qos_result_retcode(m.state),
                           !.pc = "done"]])

\* Both callers have their return value.
pair_return ==
    /\ pair.lib.pc = "done" /\ pair.run.pc = "done"
    /\ PairStep(PairInit)

NextPair ==
    \/ pair_call
    \/ \E s \in {"lib", "run"} : pair_open(s)
    \/ \E s \in {"lib", "run"} : pair_ioctl(s)
    \/ \E s \in {"lib", "run"} : pair_close(s)
    \/ \E s \in {"lib", "run"} : pair_eval(s)
    \/ \E s \in {"lib", "run"} : pair_sleep(s)
    \/ \E s \in {"lib", "run"} : pair_alloc(s)
    \/ \E s \in {"lib", "run"} : pair_copy(s)
    \/ pair_return

SpecPair == Init /\ [][NextPair]_vars

(* ------------------------------------------------------------------ *)
(* A client that only calls qos_result                                  *)
(* ------------------------------------------------------------------ *)
NextResult ==
    \/ caller_resumes
    \/ qos_result_call
    \/ qos_status_open \/ qos_status_ioctl \/ qos_status_close
    \/ poll_eval \/ poll_sleep
    \/ fetch_alloc \/ fetch_open \/ fetch_ioctl \/ fetch_close \/ fetch_copy

\* The calling thread keeps running, and every open, request, close and sleep
\* it asks of the system returns.
SpecFair == Init /\ [][NextResult]_vars /\ WF_vars(NextResult)

(* ------------------------------------------------------------------ *)
(* Properties                                                           *)
(* ------------------------------------------------------------------ *)
Polling  == op \in {"result", "wait"}

\* What the caller's result record held when the call started.
BufBefore == IF prior.set THEN prior.buf ELSE OutBefore
FetchPcs == {"f_alloc", "f_open", "f_ioctl", "f_close", "f_copy"}
Terminal == {QOS_STATE_SUCCESS, QOS_STATE_FAILED}

C1_StateInv ==
    Polling =>
        /\ nUnkObs <= 3
        /\ nUnkObs = 3 =>
              \/ pc = "eval" /\ IsUnknownObs(state)
              \/ pc = "done" /\ ret = QOS_ERR_NOT_FOUND /\ nResult = 0
                             /\ out = BufBefore

\* A step inside one call (a call starts from "idle", or from "done" when it
\* repeats the call that has just returned).
InCall == pc \notin {"idle", "done"}

C1_CounterStep == InCall => unknown_cnt' >= unknown_cnt

\* C1: in qos_result and wait_with_progress the third status of one session
\* that is unknown or negative, consecutive or not, ends the call with
\* NotFound at that poll: nothing is queried, slept or fetched after it, and
\* the unknown counter never goes down during the session.
C1_ThirdUnknownIsNotFound == []C1_StateInv /\ [][C1_CounterStep]_vars

\* Three unknown statuses with a known one in between, and NotFound returned.
C1_Witness ==
    /\ Polling /\ pc = "done" /\ ret = QOS_ERR_NOT_FOUND
    /\ nUnkObs = 3 /\ gapSeen /\ nStatus >= 4

\* C2: called with timeout_s = 0, qos_result and wait_with_progress never
\* return Timeout.
C2_ZeroNeverTimesOut ==
    (Polling /\ timeout_s = 0 /\ pc = "done") => ret # QOS_ERR_TIMEOUT

\* timeout_ms is exactly t * 1000 (stated without a product that could overflow).
IsThousandTimes(ms, t) == ms > 0 /\ ms % 1000 = 0 /\ ms \div 1000 = t

\* C3: the deadline is 30000 ms in qos_result and 60000 ms in
\* wait_with_progress when timeout_s <= 0, and exactly timeout_s * 1000 ms
\* when timeout_s > 0.
C3_Deadline ==
    (Polling /\ pc # "done") =>
        IF timeout_s > 0
            THEN IsThousandTimes(timeout_ms, timeout_s)
            ELSE timeout_ms = (IF op = "result" THEN 30000 ELSE 60000)

\* C4: in qos_result the elapsed time is the sum of the intervals asked of
\* sleep_ms; Timeout is returned only at a poll with elapsed >= deadline whose
\* status is not terminal, not cancelled and not the third unknown, and the
\* loop never sleeps again once such a poll has elapsed >= deadline.
C4_TimeoutAtDeadline ==
    op = "result" =>
        /\ elapsed_ms = slept
        /\ (pc = "done" /\ ret = QOS_ERR_TIMEOUT) =>
              /\ timeout_ms > 0 /\ elapsed_ms >= timeout_ms
              /\ state \notin Terminal /\ state # QOS_STATE_CANCELLED
              /\ nUnkObs < 3
        /\ (pc = "sleep" /\ timeout_ms > 0) => elapsed_ms < timeout_ms
        /\ (pc = "done" /\ ret = QOS_ERR_NOT_FOUND) =>
              (state = QOS_STATE_CANCELLED \/ nUnkObs = 3)
        /\ pc \in FetchPcs => state \in Terminal

\* min(50 * 2^(k-1), 500)
BackoffSeq(k) == IF k >= 5 THEN 500 ELSE 50 * 2^(k - 1)

\* C5: the k-th sleep of a session asks for min(50 * 2^(k-1), 500) ms; the
\* interval is one of 50, 100, 200, 400, 500 and never decreases.
C5_BackoffSequence ==
    Polling =>
        /\ nSleep >= 1 => lastSleep = BackoffSeq(nSleep)
        /\ interval_ms = BackoffSeq(nSleep + 1)
        /\ interval_ms \in {50, 100, 200, 400, 500}
        /\ lastSleep <= interval_ms

\* The sixth sleep of a session: the interval stays at the 500 ms ceiling.
C5_Witness ==
    Polling /\ nSleep = 6 /\ lastSleep = 500 /\ interval_ms = 500

\* C6 as stated: success or failed ends the loop at that poll and exactly one
\* result request is then issued, whatever the allocation and the open do.
C6_ExactlyOneRequest ==
    (op = "result" /\ pc = "done" /\ state \in Terminal) => nResult = 1

\* C6, amended: in qos_result success or failed ends the loop at that poll
\* (no status query or sleep follows); then, unless the allocation of the
\* request record or the open of the channel fails (OutOfMemory or
\* DeviceUnavailable, no request), exactly one result request is issued, on a
\* channel opened for it; failed is not made an error of the poller.
C6_TerminalThenOneRequest ==
    (op = "result" /\ state \in Terminal) =>
        /\ pc \in {"eval", "done"} \cup FetchPcs
        /\ pc \in {"eval", "f_alloc", "f_open"} => nResult = 0 /\ fd_open = 0
        /\ pc = "f_ioctl" => nResult = 0 /\ fd_open = 1 /\ opens = closes + 1
        /\ pc \in {"f_close", "f_copy"} => nResult = 1
        /\ pc = "done" =>
              \/ ret \in {QOS_ERR_NOMEM, QOS_ERR_OPEN_DEV} /\ nResult = 0
              \/ /\ ret \notin {QOS_ERR_NOMEM, QOS_ERR_OPEN_DEV,
                               QOS_ERR_NOT_FOUND, QOS_ERR_TIMEOUT}
                 /\ nResult = 1

\* A failed task whose result was requested once and returned.
C6_Witness ==
    /\ op = "result" /\ pc = "done" /\ state = QOS_STATE_FAILED
    /\ nResult = 1 /\ out # OutBefore /\ nSleep >= 1

\* C7: when the task is failed and the result request succeeded, qos_result
\* returns QOS_ERR_KERN with error_code populated from the driver's record.
C7_FailedReportsKern ==
    (op = "result" /\ pc = "done" /\ state = QOS_STATE_FAILED /\ out # OutBefore) =>
        (ret = QOS_ERR_KERN /\ out.error_code = kr.error_code)

\* C8: a cancelled status ends qos_result and wait_with_progress with
\* NotFound at that poll, whatever the elapsed time and the unknown count;
\* no result request is issued and the caller's record is not written.
C8_CancelledIsNotFound ==
    (Polling /\ state = QOS_STATE_CANCELLED) =>
        /\ pc \in {"eval", "done"}
        /\ nResult = 0 /\ out = BufBefore
        /\ pc = "done" => ret = QOS_ERR_NOT_FOUND

\* Cancelled seen past the deadline, after two unknown statuses.
C8_Witness ==
    /\ Polling /\ pc = "done" /\ state = QOS_STATE_CANCELLED
    /\ ret = QOS_ERR_NOT_FOUND
    /\ unknown_cnt = 2 /\ timeout_ms > 0 /\ elapsed_ms >= timeout_ms

\* C9: a public operation during which an open of the device failed returns
\* QOS_ERR_OPEN_DEV.
C9_OpenFailureIsReported ==
    (op \in {"submit", "status", "cancel", "result", "resource"}
        /\ pc = "done" /\ openFails > 0) => ret = QOS_ERR_OPEN_DEV

\* C10: when a public operation has returned, no channel is open: every
\* successful open of the call was followed by a close, on every exit path.
C10_NoChannelLeftOpen ==
    /\ pc \in {"done", "idle"} => fd_open = 0 /\ opens = closes
    /\ fd_open \in {0, 1} /\ fd_open = opens - closes

\* qos_submit returned SubmissionFailed after a failed write on an open channel.
C10_Witness ==
    /\ op = "submit" /\ pc = "done" /\ ret = QOS_ERR_SUBMIT
    /\ opens = 1 /\ nWrite = 1 /\ nRead = 0

\* ioctl requests of the call so far.
Ioctls == nStatus + nResult + nCancel + nResource

C11_StateInv ==
    /\ fd_open \in {0, 1}
    /\ pc = "sleep" => fd_open = 0
    /\ op = "submit" =>
          /\ Ioctls = 0 /\ opens <= 1 /\ nRead <= nWrite /\ nWrite <= opens
          /\ (fd_open = 0 /\ opens = 1) => nWrite = 1
    /\ op # "submit" =>
          /\ nWrite = 0 /\ nRead = 0
          /\ fd_open = 0 => Ioctls = opens
          /\ fd_open = 1 => Ioctls \in {opens - 1, opens}

C11_Step ==
    InCall =>
        /\ opens' # opens => fd_open = 0 /\ fd_open' = 1
        /\ Ioctls' # Ioctls =>
              Ioctls' = Ioctls + 1 /\ fd_open = 1 /\ fd_open' = 1 /\ Ioctls = closes
        /\ nWrite' # nWrite => nWrite = 0 /\ nRead = 0 /\ fd_open = 1
        /\ nRead' # nRead => nRead = 0 /\ nWrite = 1 /\ fd_open = 1
        /\ closes' # closes =>
              /\ fd_open = 1 /\ fd_open' = 0
              /\ op # "submit" => Ioctls = opens
        /\ nSleep' # nSleep => fd_open = 0 /\ fd_open' = 0 /\ opens = closes

\* C11: within a call at most one channel is open at a time; a channel
\* carries exactly one request (one ioctl; for qos_submit one write followed by
\* at most one read) and is closed before the next open and before a sleep of
\* the poll loop, so no channel is open while the loop sleeps.
C11_OneRequestPerChannel == []C11_StateInv /\ [][C11_Step]_vars

\* The poll loop about to sleep for the second time: two channels were
\* opened, each carried one status request, both are closed.
C11_Witness ==
    /\ Polling /\ pc = "sleep" /\ nSleep = 1
    /\ opens = 2 /\ closes = 2 /\ nStatus = 2 /\ fd_open = 0

\* The header line the driver is to receive for the config argument.
HeaderText ==
    IF config.null
        THEN "shots=1000 priority=0 mitigation=0 alloc_strategy=0 split_strategy=0\n"
    ELSE IF config.shots = 20
        THEN "shots=20 priority=9 mitigation=1 alloc_strategy=3 split_strategy=4\n"
    ELSE "shots=-1 priority=0 mitigation=0 alloc_strategy=0 split_strategy=12\n"

\* C12: qos_submit with header length + circuit length >= 4096 returns
\* InvalidArguments without any device I/O (no open, no write, no read); with
\* a total of at most 4095 the size check does not reject.
C12_OversizeRejected ==
    (op = "submit" /\ ~circuit.null) =>
        LET total == Len(HeaderText) + Len(circuit.bytes)
        IN  /\ total >= 4096 =>
                  /\ pc = "done" /\ ret = QOS_ERR_ARGS
                  /\ opens = 0 /\ openFails = 0 /\ nWrite = 0 /\ nRead = 0
            /\ total <= 4095 => ~(pc = "done" /\ ret = QOS_ERR_ARGS)

\* A submission of exactly 4096 bytes (69 of header, 4027 of circuit) rejected.
C12_Witness ==
    /\ op = "submit" /\ pc = "done" /\ ret = QOS_ERR_ARGS
    /\ config.null /\ ~circuit.null /\ Len(circuit.bytes) = 4027
    /\ opens = 0 /\ nWrite = 0

\* C13: in qos_submit, when the single write fails or is short (fewer bytes
\* accepted than the full buffer), the call returns SubmissionFailed, does not
\* read the identifier back, and has closed the channel.
C13_ShortWriteFails ==
    (op = "submit" /\ nWrite = 1 /\ wr_ret < wr_req) =>
        /\ nRead = 0
        /\ pc = "done" /\ ret = QOS_ERR_SUBMIT
        /\ fd_open = 0 /\ closes = 1

\* C14: qos_submit returns an identifier only when the read-back returned
\* exactly 4 bytes and the value read is > 0, and then returns that value;
\* with any other byte count or a value <= 0 it returns SubmissionFailed.  It
\* never returns 0 and never an identifier the driver did not supply.
C14_IdentifierFromDriver ==
    (op = "submit" /\ pc = "done") =>
        /\ ret # 0
        /\ ret > 0 \/ ret \in {QOS_ERR_ARGS, QOS_ERR_NOMEM, QOS_ERR_OPEN_DEV,
                                QOS_ERR_SUBMIT}
        /\ ret > 0 => nRead = 1 /\ ioret = 4 /\ rd_qid > 0 /\ ret = rd_qid
        /\ (nRead = 1 /\ (ioret # 4 \/ rd_qid <= 0)) => ret = QOS_ERR_SUBMIT

\* The driver supplied 7 in a read of 4 bytes and qos_submit returned 7.
C14_Witness ==
    /\ op = "submit" /\ pc = "done" /\ ret = 7
    /\ nWrite = 1 /\ nRead = 1 /\ ioret = 4 /\ rd_qid = 7

\* C15: the bytes qos_submit writes are the header line followed by the
\* circuit bytes as given, the length written is header_len + circuit_len (no
\* terminator), in one write; with config NULL the header carries shots=1000
\* and 0 for the four other fields, and a given config has its five fields
\* printed as they are, in the order shots, priority, mitigation,
\* alloc_strategy, split_strategy.
C15_WrittenBytes ==
    (op = "submit" /\ nWrite >= 1) =>
        /\ nWrite = 1
        /\ wr_buf = HeaderText \o circuit.bytes
        /\ wr_req = Len(HeaderText) + Len(circuit.bytes)
        /\ wr_req = Len(wr_buf)

\* The circuit "h q[0];\n" written after the header of a given config.
C15_Witness ==
    /\ op = "submit" /\ nWrite = 1 /\ ~config.null /\ config.shots = 20
    /\ wr_buf = "shots=20 priority=9 mitigation=1 alloc_strategy=3 split_strategy=4\nh q[0];\n"
    /\ wr_req = 75

\* C16: a single qos_status with qid > 0 turns a "no such entry" (ENOENT)
\* answer into the state unknown (0), any other failure of the request into
\* ControlRequestFailed, and returns the state of a successful request as the
\* driver gave it; it never returns NotFound.
C16_StatusMapping ==
    (op = "status" /\ pc = "done") =>
        /\ ret # QOS_ERR_NOT_FOUND
        /\ nStatus = 0 => ret \in {QOS_ERR_ARGS, QOS_ERR_OPEN_DEV}
        /\ nStatus = 1 =>
              /\ qid > 0
              /\ (ioret < 0 /\ errno = ENOENT) => ret = QOS_STATE_UNKNOWN
              /\ (ioret < 0 /\ errno # ENOENT) => ret = QOS_ERR_IOCTL
              /\ ioret >= 0 => ret = req_state
        /\ nStatus <= 1

\* The driver answered ENOENT and qos_status returned the state unknown.
C16_Witness ==
    /\ op = "status" /\ pc = "done" /\ qid > 0 /\ nStatus = 1
    /\ ioret < 0 /\ errno = ENOENT /\ ret = QOS_STATE_UNKNOWN

\* C17: in every Task Result qos_result returns with OK, whatever record the
\* driver provided (more than 32 outcomes, keys with no NUL), num_outcomes is
\* at most 32, every key slot holds at most 191 bytes of text followed by a
\* NUL inside its 192 bytes, error_info holds at most 127 bytes and a NUL,
\* and no entry behind the 32 of keys and counts was written.
C17_ResultWithinBounds ==
    (op = "result" /\ pc = "done" /\ ret = QOS_OK) =>
        /\ out.num_outcomes <= 32
        /\ DOMAIN out.keys = 1..32 /\ DOMAIN out.counts = 1..32
        /\ \A i \in DOMAIN out.keys : out.keys[i].text.len <= 191
        /\ out.error_info.text.len <= 127

\* The driver reported 40 outcomes with keys of 192 bytes and no NUL; the
\* record returned has 32 outcomes and keys of 191 bytes.
C17_Witness ==
    /\ op = "result" /\ pc = "done" /\ ret = QOS_OK
    /\ kr.num_outcomes = 40 /\ kr.keys[32].len = 192
    /\ out.num_outcomes = 32 /\ out.keys[32].text.len = 191

\* The bytes of t that a copy bounded by n stores.
Bounded(t, n) == [src |-> t.src, len |-> IF t.len > n THEN n ELSE t.len]

\* C18: qos_result never returns a partial result: until it returns OK, and
\* on every error return (InvalidArguments, NotFound, Timeout, OutOfMemory,
\* DeviceUnavailable, ControlRequestFailed), the caller's record is as it was
\* before the call; on an OK return every field of the record is zero or
\* holds what the driver's record gave for it.
C18_NoPartialResult ==
    op = "result" =>
        /\ ~(pc = "done" /\ ret = QOS_OK) => out = BufBefore
        /\ (pc = "done" /\ ret # QOS_OK) =>
              ret \in {QOS_ERR_ARGS, QOS_ERR_NOT_FOUND, QOS_ERR_TIMEOUT,
                       QOS_ERR_NOMEM, QOS_ERR_OPEN_DEV, QOS_ERR_IOCTL}
        /\ (pc = "done" /\ ret = QOS_OK) =>
              LET n == IF kr.num_outcomes > 32 THEN 32 ELSE kr.num_outcomes
              IN  /\ nResult = 1 /\ ioret >= 0
                  /\ out.qid = qid /\ out.shots = kr.shots
                  /\ out.error_code = kr.error_code
                  /\ out.num_outcomes = n
                  /\ out.error_info = [text |-> Bounded(kr.error_info, 127),
                                       clean |-> TRUE]
                  /\ out.fidelity_score = 0 /\ out.num_sub_circuits = 0
                  /\ \A i \in 1..32 :
                        IF i <= n
                            THEN /\ out.keys[i] = [text |-> Bounded(kr.keys[i], 191),
                                                   clean |-> TRUE]
                                 /\ out.counts[i] = kr.counts[i]
                            ELSE out.keys[i] = ZeroArr /\ out.counts[i] = 0

\* The result request failed: ControlRequestFailed, the record untouched.
C18_Witness ==
    /\ op = "result" /\ pc = "done" /\ ret = QOS_ERR_IOCTL
    /\ nResult = 1 /\ ioret < 0 /\ out = OutBefore

\* C19: when qos_result is repeated for a task that the driver keeps
\* reporting as success and for which it returns the same record, the second
\* call returns OK as the first did, and the two Task Results are equal in
\* every byte (unused key slots, counts and the fields the driver does not
\* supply included), whatever the second call's record held before.
C19_FetchIdempotent ==
    (op = "result" /\ prior.set) =>
        /\ (pc = "done" /\ nResult = 1) => ret = QOS_OK /\ kr = prior.kr
        /\ (pc = "done" /\ ret = QOS_OK) => out = prior.out
        /\ ~(pc = "done" /\ ret = QOS_OK) => out = prior.buf

\* The second call was given a record of zeros, where the first had other
\* contents, and returned the same Task Result.
C19_Witness ==
    /\ op = "result" /\ prior.set /\ pc = "done" /\ ret = QOS_OK
    /\ prior.buf = AllZeroResult
    /\ out = prior.out /\ out.num_outcomes = 32

\* C20: in every Backend Pool the canonical qos_resource returns with OK,
\* whatever count the driver reported, num_backends is at most 8, only the
\* entries below num_backends hold what the driver's record gave (the others
\* are zero, and no entry behind the 8 was written), and each name holds at
\* most 31 bytes followed by a NUL.
C20_PoolWithinBounds ==
    (op = "resource" /\ pc = "done" /\ ret = QOS_OK) =>
        LET n == pool.num_backends
        IN  /\ n <= 8
            /\ n = (IF kpool.num_backends > 8 THEN 8 ELSE kpool.num_backends)
            /\ DOMAIN pool.backends = 1..8
            /\ \A i \in 1..8 :
                  LET b == pool.backends[i]
                      k == kpool.backends[i]
                  IN  /\ b.name.text.len <= 31 /\ b.name.clean
                      /\ IF i <= n
                            THEN /\ b.id = k.id
                                 /\ b.name.text = Bounded(k.name, 31)
                                 /\ b.total_qubits = k.total_qubits
                                 /\ b.state = k.state
                                 /\ b.current_qid = k.current_qid
                                 /\ b.fidelity_score = k.fidelity_score
                                 /\ b.num_qubits_available = k.num_qubits_available
                                 /\ b.connectivity_type = k.connectivity_type
                            ELSE b = ZeroBackend

\* The driver reported 9 backends with names of 32 bytes and no NUL; the pool
\* returned has 8 backends and names of 31 bytes.
C20_Witness ==
    /\ op = "resource" /\ pc = "done" /\ ret = QOS_OK
    /\ kpool.num_backends = 9 /\ kpool.backends[8].name.len = 32
    /\ pool.num_backends = 8 /\ pool.backends[8].name.text.len = 31

(* C21 as stated: qos_cancel with qid > 0 sends exactly one cancel request,
   and returns OK when the request succeeded, NOT_FOUND when it failed with
   ENOENT, and IOCTL when it failed with EBUSY or anything else; OK is never
   returned for a refused request. *)
C21_ExactlyOneCancel ==
    (op = "cancel" /\ pc = "done" /\ qid > 0) =>
        /\ nCancel = 1
        /\ (ioret >= 0) => ret = QOS_OK
        /\ (ioret < 0 /\ errno = ENOENT) => ret = QOS_ERR_NOT_FOUND
        /\ (ioret < 0 /\ errno # ENOENT) => ret = QOS_ERR_IOCTL
        /\ (ret = QOS_OK) => ioret >= 0

(* C21, amended: qos_cancel with qid > 0 returns DeviceUnavailable without a
   request when the channel cannot be opened; otherwise it sends exactly one
   cancel request and returns OK when the request succeeded, NOT_FOUND when
   it failed with ENOENT, and IOCTL when it failed with EBUSY or anything
   else; OK is never returned without a request the driver accepted. *)
C21_CancelMapping ==
    (op = "cancel" /\ pc = "done" /\ qid > 0) =>
        /\ opens + openFails = 1
        /\ openFails = 1 => nCancel = 0 /\ ret = QOS_ERR_OPEN_DEV
        /\ opens = 1 =>
              /\ nCancel = 1
              /\ (ioret >= 0) => ret = QOS_OK
              /\ (ioret < 0 /\ errno = ENOENT) => ret = QOS_ERR_NOT_FOUND
              /\ (ioret < 0 /\ errno # ENOENT) => ret = QOS_ERR_IOCTL
        /\ (ret = QOS_OK) => nCancel = 1 /\ ioret >= 0

\* The request was refused as busy and qos_cancel returned IOCTL.
C21_Witness ==
    /\ op = "cancel" /\ pc = "done" /\ qid > 0 /\ nCancel = 1
    /\ ioret < 0 /\ errno = EBUSY /\ ret = QOS_ERR_IOCTL

(* C22: when the driver refuses the cancel request of qcancel as busy (the
   task is running), qcancel ends with the report "is RUNNING, cannot cancel"
   and never with the generic "cancel failed" report, whatever the driver
   answers to the one follow-up status query. *)
C22_BusyAlwaysReportedRunning ==
    (/\ op = "qcancel" /\ pc = "done" /\ cancel_errno = EBUSY
     /\ nStatus = 1 /\ ioret = 0) =>
        report = "is RUNNING, cannot cancel"

\* The locals thread t can read or write: its own, and its unknown counter.
ConcView(t) == <<conc.loc[t], conc.cnt[CounterCell(t)]>>

\* No two calls use the same channel, and a call uses a channel that is open.
C23_ChannelsPrivate ==
    \A t \in Threads :
        conc.loc[t].fd # -1 =>
            /\ conc.loc[t].fd \in conc.fds
            /\ \A u \in Threads \ {t} : conc.loc[u].fd # conc.loc[t].fd

\* Each call decides as the same call does when it runs alone on the same
\* arguments and the same answers of the driver, and returns accordingly.
C23_AsAlone ==
    \A t \in Threads :
        LET l == conc.loc[t]
        IN  /\ l.verdict = conc.ref[t].verdict
            /\ l.pc # "idle" => conc.cnt[CounterCell(t)] = conc.ref[t].unknown_cnt
            /\ l.pc = "done" =>
                  /\ l.verdict = "not_found" => l.ret = QOS_ERR_NOT_FOUND
                  /\ l.verdict = "timeout" => l.ret = QOS_ERR_TIMEOUT
                  /\ l.verdict = "fetch" =>
                        IF l.ioret < 0 THEN l.ret = QOS_ERR_IOCTL
                        ELSE l.ret \in {QOS_OK, QOS_ERR_NOMEM, QOS_ERR_OPEN_DEV}

\* A step changes the locals of at most one call.
C23_Step ==
    \A t, u \in Threads :
        (t # u /\ ConcView(t)' # ConcView(t)) => ConcView(u)' = ConcView(u)

(* C23: calls of qos_result made at the same time by several threads share
   no mutable state: every call has its own channel, elapsed time, interval
   and unknown counter, a step of one call changes nothing of another, and
   under every interleaving a call returns what it returns when it runs
   alone on its arguments and the driver's answers to its own requests. *)
C23_NoSharedState ==
    [](C23_ChannelsPrivate /\ C23_AsAlone) /\ [][C23_Step]_vars

\* Thread 1 has returned NotFound after three unknown answers while thread 2
\* is inside its own call with one unknown answer counted and a channel open.
C23_Witness ==
    /\ conc.loc[1].pc = "done" /\ conc.loc[1].ret = QOS_ERR_NOT_FOUND
    /\ conc.cnt[CounterCell(1)] = 3
    /\ conc.loc[2].pc = "st_ioctl" /\ conc.loc[2].fd \in conc.fds
    /\ conc.cnt[CounterCell(2)] = 1 /\ conc.loc[2].nSleep = 2

(* C24: no request is sent twice by one call: qos_submit writes at most once
   and reads at most once, qos_status, qos_cancel and qos_resource send at
   most one request, qos_result and wait_with_progress send at most one
   result request, and a call whose request failed has returned an error
   for it; only the status query of the poll loop is repeated. *)
C24_NoAutomaticRetry ==
    /\ nWrite <= 1 /\ nRead <= 1 /\ nCancel <= 1 /\ nResource <= 1
    /\ nResult <= 1
    /\ (nStatus > 1) => Polling
    /\ (nRead = 1) => (nWrite = 1 /\ wr_ret >= 0)
    /\ (pc = "done" /\ ioret < 0) =>
          /\ op = "submit" => ret = QOS_ERR_SUBMIT
          /\ op = "cancel" => ret \in {QOS_ERR_NOT_FOUND, QOS_ERR_IOCTL}
          /\ op = "resource" => ret = QOS_ERR_IOCTL
          /\ op = "status" => ret \in {QOS_STATE_UNKNOWN, QOS_ERR_IOCTL}
          /\ Polling => ret = QOS_ERR_IOCTL

C24_Witness ==
    /\ op = "result" /\ pc = "done" /\ nStatus = 3 /\ nResult = 1
    /\ ioret < 0 /\ ret = QOS_ERR_IOCTL

(* C25: the value qos_result returns for a task that reached the state failed
   is never a value it returns when it could not find out the outcome
   (timeout, not found, failed result request); checked here on the reduced
   profile, whose value for a failed task is that of ReducedVerdictRet. *)
C25_FailedValueIsDistinct ==
    (/\ red.op = "result" /\ red.pc = "done"
     /\ \/ red.verdict \in {"not_found", "timeout"}
        \/ red.verdict = "fetch" /\ red.nResult = 1 /\ red.ioret < 0) =>
        red.ret # ReducedVerdictRet("failed")

(* C28: on every sequence of statuses and every timeout, the loop of the
   reduced qos_result ends in the class of outcome (result fetched, not
   found, timeout) in which the loop of the canonical qos_result ends on the
   same statuses, when the canonical loop ends on them at all. *)
C28_SameOutcomeClass ==
    (red.op = "result" /\ red.verdict \notin {"none", "sleep"}) =>
        CanonClass(red.timeout_s, red.seen) \in {red.verdict, "more"}

(* C29: the reduced qos_resource reports at most QUANTUM_MAX_BACKENDS
   backends whatever count the driver gave, so that qresource, which reads
   num_backends entries, reads none behind the array. *)
C29_ReducedPoolClamped ==
    (red.op = "qresource" /\ red.pc = "done" /\ red.ret = QERR_OK) =>
        /\ red.pool.num_backends <= QUANTUM_MAX_BACKENDS
        /\ red.printed <= QUANTUM_MAX_BACKENDS

\* The step wait_with_progress takes after a status equals the step it takes
\* from the same locals with the other value of show_progress.
C26_Step ==
    (op = "wait" /\ pc = "eval") =>
        LET v == WaitVerdict(guard, 1 - show_progress, state, unknown_cnt,
                             timeout_ms, elapsed_ms)
        IN  /\ pc' = (IF v = "fetch" THEN "f_alloc"
                      ELSE IF v = "sleep" THEN "sleep" ELSE "done")
            /\ v = "not_found" => ret' = QOS_ERR_NOT_FOUND
            /\ v = "timeout" => ret' = QOS_ERR_TIMEOUT
            /\ unknown_cnt' = UnknownCntAfter(state, unknown_cnt)
            /\ UNCHANGED <<elapsed_ms, interval_ms, timeout_ms, out, chan,
                           nStatus, nSleep, nResult, slept>>

\* Progress lines are written only when asked for, one for each status.
C26_Output ==
    op = "wait" =>
        /\ show_progress = 0 => nProgress = 0
        /\ (show_progress # 0 /\ pc \in {"sleep", "done"} /\ opens = nStatus)
              => nProgress = nStatus

(* C26: show_progress changes what wait_with_progress prints and nothing
   else: from the same locals and the same status, the call takes the same
   step (same next position, same return value, same counters, no request
   or sleep more or less) whether show_progress is 0 or 1. *)
C26_ProgressIsObservational == []C26_Output /\ [][C26_Step]_vars

\* A call with progress output that timed out after five status queries.
C26_Witness ==
    /\ op = "wait" /\ show_progress = 1 /\ pc = "done"
    /\ ret = QOS_ERR_TIMEOUT /\ nStatus = 5 /\ nProgress = 5 /\ nSleep = 4

(* C27: struct kern_backend of the client lays the backend record out as the
   driver does: every byte of the pool belongs to the same entry, the same
   member and the same byte of it in both, padding to padding. *)
C27_MirrorMatchesDriver == lay.mirror = lay.driver

\* The arguments of the call are not valid.
InvalidArgs ==
    \/ op \in {"status", "cancel"} /\ qid <= 0
    \/ op = "result" /\ (qid <= 0 \/ out_null)
    \/ op = "resource" /\ out_null
    \/ op = "submit" /\ circuit.null

(* C30: a call with invalid arguments (qid <= 0 for qos_status, qos_cancel
   and qos_result, a null output record for qos_result and qos_resource, a
   null circuit for qos_submit) returns QOS_ERR_ARGS at once: no channel is
   opened, no request is sent, and no record of the caller is written. *)
C30_InvalidArgsBeforeIO ==
    InvalidArgs =>
        /\ pc = "done" /\ ret = QOS_ERR_ARGS
        /\ opens = 0 /\ openFails = 0 /\ fd_open = 0
        /\ nStatus = 0 /\ nResult = 0 /\ nCancel = 0 /\ nResource = 0
        /\ nWrite = 0 /\ nRead = 0 /\ nSleep = 0
        /\ out = OutBefore /\ pool = PoolBefore

C30_Witness ==
    /\ op = "result" /\ pc = "done" /\ qid > 0 /\ out_null
    /\ ret = QOS_ERR_ARGS /\ opens = 0

(* C31: one iteration of the poll loop tests terminal state, cancelled,
   unknown count and deadline in that order.  Timeout is returned only after
   a status was obtained (a status request answered, or a qos_status that
   could not open the device); at a poll with elapsed >= deadline a success or
   failed status leads to the result request, a cancelled status and the
   third unknown status lead to NotFound, and only the other statuses lead
   to Timeout. *)
C31_CheckOrder ==
    Polling =>
        /\ (pc = "done" /\ ret = QOS_ERR_TIMEOUT) =>
              /\ nStatus + openFails >= 1
              /\ nStatus + openFails = nSleep + 1
        /\ (DeadlineHit(guard, timeout_ms, elapsed_ms) /\ nStatus + openFails > nSleep) =>
              /\ pc # "sleep"
              /\ (pc = "done" /\ state \in Terminal) =>
                    /\ ret \notin {QOS_ERR_TIMEOUT, QOS_ERR_NOT_FOUND}
                    /\ nResult = 1 \/ ret \in {QOS_ERR_NOMEM, QOS_ERR_OPEN_DEV}
              /\ (pc = "done" /\ state = QOS_STATE_CANCELLED) =>
                    ret = QOS_ERR_NOT_FOUND
              /\ (pc = "done" /\ IsUnknownObs(state) /\ nUnkObs = 3) =>
                    ret = QOS_ERR_NOT_FOUND
              /\ (pc = "done" /\ state \notin Terminal
                    /\ state # QOS_STATE_CANCELLED /\ nUnkObs < 3
                    /\ op = "result") =>
                    ret = QOS_ERR_TIMEOUT

\* A success status seen at 1250 ms of a 1000 ms deadline, and the record
\* fetched.
C31_Witness ==
    /\ op = "result" /\ pc = "done" /\ ret = QOS_OK
    /\ state = QOS_STATE_SUCCESS /\ nResult = 1
    /\ timeout_ms = 1000 /\ elapsed_ms >= timeout_ms /\ nStatus >= 2

\* Largest timeout_s whose product with 1000 fits a 32-bit int.
MaxExactTimeout == MaxInt32 \div 1000

\* The number of sleeps after which the intervals 50, 100, 200, 400, 500,
\* 500, ... add up to d ms or more.
SleepBound(d) ==
    IF d <= 50 THEN 1
    ELSE IF d <= 150 THEN 2
    ELSE IF d <= 350 THEN 3
    ELSE IF d <= 750 THEN 4
    ELSE 4 + ((d - 750 + 499) \div 500)

C32_PollsBounded ==
    /\ (Polling /\ timeout_s <= MaxExactTimeout) =>
          /\ timeout_ms > 0
          /\ nSleep <= SleepBound(timeout_ms)
          /\ nStatus <= nSleep + 1
          /\ elapsed_ms >= 0 /\ elapsed_ms < timeout_ms + 500
    /\ \A t \in {1, MaxExactTimeout} :
          LET d == qos_result_timeout_ms(t)
          IN  d = t * 1000 /\ Add32(d - 1, 500) = d + 499

(* C32: for timeout_s <= 2147483 the poll loop of qos_result ends whatever
   the driver answers: the deadline is positive, the elapsed time stays a
   non-negative int below deadline + 500, the number of sleeps and of status
   requests is bounded by a function of the deadline alone, and the call
   returns. *)
C32_LoopTerminates ==
    /\ []C32_PollsBounded
    /\ (op = "result" /\ InCall /\ timeout_s <= MaxExactTimeout) ~> (pc = "done")

\* The longest session of the 30000 ms default deadline: 63 sleeps, 64 status
\* requests, and Timeout.
C32_Witness ==
    /\ op = "result" /\ pc = "done" /\ timeout_s <= 0
    /\ nSleep = SleepBound(30000) /\ nStatus = nSleep + 1
    /\ ret = QOS_ERR_TIMEOUT

\* Process a of the pair has left its poll loop.
PastLoop(a) == a.pc \in {"f_alloc", "f_open", "f_ioctl", "f_close", "f_copy",
                         "done"}

\* Process b against process a on the same answers: the sleeps of the one
\* that has slept less are the first sleeps of the other, b asks for no status
\* a has not asked for once a has left its loop, and where both are at the
\* same point (the same statement after the same number of status requests)
\* or both have returned, their locals, requests, return codes and records
\* are the same.
SameSoFar(a, b) ==
    /\ a.timeout_ms = b.timeout_ms
    /\ Len(b.sleeps) <= Len(a.sleeps) =>
          b.sleeps = SubSeq(a.sleeps, 1, Len(b.sleeps))
    /\ PastLoop(a) => b.nStatus <= a.nStatus
    /\ (a.pc = b.pc /\ (a.nStatus = b.nStatus \/ a.pc = "done")) =>
          /\ a.nStatus = b.nStatus /\ a.nResult = b.nResult
          /\ a.sleeps = b.sleeps
          /\ a.elapsed_ms = b.elapsed_ms /\ a.interval_ms = b.interval_ms
          /\ a.unknown_cnt = b.unknown_cnt
          /\ IsUnknownObs(a.state) = IsUnknownObs(b.state)
          /\ a.fd = b.fd /\ a.ret = b.ret /\ a.out = b.out

\* The two processes of the pair agree so far.
PairAgree == SameSoFar(pair.lib, pair.run) /\ SameSoFar(pair.run, pair.lib)

\* Where timeout_s * 1000 fits an int, or the two builds made the same of
\* the test on the overflowed product, the two functions agree while every
\* open succeeds.
PairAgreeSameDeadlineTest ==
    (pair.openFails = 0 /\ pair.lib.guard = pair.run.guard) => PairAgree

(* C33: qos_result and wait_with_progress called with qid > 0, a result
   record, the same timeout_s > 0 and given the same answers by a device that
   opens every time run through the same requests and sleeps: whichever of
   the two processes is behind repeats what the other has done, with the
   same sleeps in the same order, the same deadline, elapsed time and
   counter at the same point, and both return the same code and the same
   record after the same number of status and result requests. *)
C33_SameMachine == pair.openFails = 0 => PairAgree

(* C34: in every Task Result qos_result returns with OK, fidelity_score and
   num_sub_circuits are 0, and every key slot and every count at an index
   >= num_outcomes holds only zero bytes, whatever the driver reported and
   whatever the record held before the call. *)
C34_UnsuppliedFieldsZero ==
    (op = "result" /\ pc = "done" /\ ret = QOS_OK) =>
        /\ out.fidelity_score = 0 /\ out.num_sub_circuits = 0
        /\ \A i \in 1..QOS_MAX_OUTCOMES :
              (i - 1 >= out.num_outcomes) =>
                  out.keys[i] = ZeroArr /\ out.counts[i] = 0

\* The record held other bytes before the call, the driver reported 2
\* outcomes, and the slots from index 2 on are zero.
C34_Witness ==
    /\ op = "result" /\ pc = "done" /\ ret = QOS_OK /\ ~prior.set
    /\ OutBefore.fidelity_score # 0 /\ OutBefore.keys[3] # ZeroArr
    /\ out.num_outcomes = 2 /\ out.keys[2] # ZeroArr
    /\ out.keys[3] = ZeroArr /\ out.counts[QOS_MAX_OUTCOMES] = 0
    /\ out.fidelity_score = 0 /\ out.num_sub_circuits = 0

(* C35: the counts of returned records are never negative: num_outcomes of a
   Task Result returned by qos_result lies in 0..32 and num_backends of a
   Backend Pool returned by qos_resource lies in 0..8, whatever the driver
   reported. *)
C35_CountsInRange ==
    /\ (op = "result" /\ pc = "done" /\ ret = QOS_OK) =>
          out.num_outcomes \in 0..QOS_MAX_OUTCOMES
    /\ (op = "resource" /\ pc = "done" /\ ret = QOS_OK) =>
          pool.num_backends \in 0..QOS_MAX_BACKENDS

(* C36: for every timeout_s > 0 the deadline of the poll loop is
   timeout_s * 1000 ms: the int product does not wrap to a deadline that is
   not positive or that is shorter, and the elapsed time, the sum of the
   intervals slept, does not wrap either. *)
C36_NoWraparound ==
    (Polling /\ InCall /\ timeout_s > 0) =>
        /\ timeout_ms > 0
        /\ timeout_ms >= timeout_s
        /\ timeout_ms = timeout_s * 1000
        /\ elapsed_ms >= 0 /\ elapsed_ms = slept

====
